---- MODULE Spec2Model ----
(***************************************************************************)
(* A model of the backtest engine of forex-signal-agent                    *)
(* (packages/agent/src/forex_signal_agent/backtest/engine.py).             *)
(*                                                                         *)
(* Python floats are modelled as exact rationals <<n, d>> (d > 0, lowest   *)
(* terms); rounding error is not modelled.  A pandas DataFrame indexed by  *)
(* time is a function from its timestamps to bars; a dict is a function    *)
(* whose keys are iterated in the fixed order SymbolOrder; the dict of     *)
(* open trades, whose insertion order decides the ledger order, is a       *)
(* sequence of key/value pairs.  Trade objects live in a heap `trade`      *)
(* (id -> fields) and the ledger and the open set hold ids, as the Python  *)
(* lists and dicts hold references.                                        *)
(***************************************************************************)
EXTENDS Integers, Sequences, FiniteSets, TLC

\* ------------------------------------------------------------ bounds
\* Timestamps are 1..MaxTs.
MaxTs == 2

Timestamps == 1..MaxTs

\* The instruments; SymbolOrder is the iteration order of the input dict.
SymbolOrder == <<"A", "B">>
Symbols == {SymbolOrder[k] : k \in 1..Len(SymbolOrder)}

\* ------------------------------------------------------------ floats
Abs(x) == IF x < 0 THEN -x ELSE x

RECURSIVE GCD(_, _)
GCD(a, b) == IF b = 0 THEN a ELSE GCD(b, a % b)

\* The rational n/d, d > 0, in lowest terms.
Rat(n, d) == LET g == GCD(Abs(n), d) IN <<n \div g, d \div g>>

R(k) == <<k, 1>>
Zero == R(0)
RAdd(a, b) ==
    LET l == (a[2] * b[2]) \div GCD(a[2], b[2])
    IN  Rat(a[1] * (l \div a[2]) + b[1] * (l \div b[2]), l)
RNeg(a) == <<-a[1], a[2]>>
RSub(a, b) == RAdd(a, RNeg(b))
RMul(a, b) ==
    LET g1 == GCD(Abs(a[1]), b[2])
        g2 == GCD(Abs(b[1]), a[2])
        h1 == IF g1 = 0 THEN 1 ELSE g1
        h2 == IF g2 = 0 THEN 1 ELSE g2
    IN  Rat((a[1] \div h1) * (b[1] \div h2), (a[2] \div h2) * (b[2] \div h1))
\* a / b for b # 0
RDiv(a, b) ==
    IF b[1] > 0 THEN RMul(a, <<b[2], b[1]>>) ELSE RMul(RNeg(a), <<b[2], -b[1]>>)
RLeq(a, b) == a[1] * b[2] <= b[1] * a[2]
RLt(a, b) == a[1] * b[2] < b[1] * a[2]
RGeq(a, b) == RLeq(b, a)
RGt(a, b) == RLt(b, a)
RAbs(a) == <<Abs(a[1]), a[2]>>

\* Python's None for an optional float, and float("inf").
NoneR == <<0, 0>>
Inf == <<1, 0>>

RECURSIVE RSum(_)
RSum(s) == IF s = <<>> THEN Zero ELSE RAdd(Head(s), RSum(Tail(s)))

\* ------------------------------------------------------------ enums
OPEN == "open"
CLOSED_TP == "closed_tp"
CLOSED_SL == "closed_sl"
CLOSED_SIGNAL == "closed_signal"
CLOSED_END == "closed_end"
TradeStatus == {OPEN, CLOSED_TP, CLOSED_SL, CLOSED_SIGNAL, CLOSED_END}
Terminal == TradeStatus \ {OPEN}

LONG == "long"
SHORT == "short"
TradeDirection == {LONG, SHORT}

\* analysis.Direction, and the outcome "not actionable" of one AnalysisResult
UPWARD == "upward"
DOWNWARD == "downward"
CONSOLIDATION == "consolidation"
NOT_ACTIONABLE == "not_actionable"
Direction == {UPWARD, DOWNWARD, CONSOLIDATION}

\* ------------------------------------------------------------ inputs
\* One OHLCV bar; only high, low and close are read by the engine.
Bar(h, l, c) == [high |-> h, low |-> l, close |-> c]

\* The bars the series are built from.  Around an entry at close 4 (long:
\* stop 3, target 6; short: stop 5, target 2) FlatBar reaches neither level,
\* WideBar both, UpBar only the upper one; after an entry at close 8 (long:
\* stop 6, target 12; short: stop 10, target 4) FlatBar reaches only the
\* lower one.
FlatBar == Bar(4, 4, 4)
WideBar == Bar(8, 2, 4)
UpBar == Bar(8, 4, 8)
BarsOf(s) == IF s = "A" THEN {FlatBar, WideBar, UpBar} ELSE {FlatBar}

\* A series of symbol s: a function from its (increasing) timestamps to bars.
SeriesSet(s) == UNION {[T -> BarsOf(s)] : T \in SUBSET Timestamps}

\* historical_data: a dict from the supplied symbols to series.
DataSets ==
    UNION {{d \in [S -> UNION {SeriesSet(s) : s \in S}] :
               \A s \in S : d[s] \in SeriesSet(s)} : S \in SUBSET Symbols}

\* The inputs of the runs of SpecRerun: the series of flat bars.
RerunData ==
    {d \in DataSets : \A s \in DOMAIN d : \A t \in DOMAIN d[s] : d[s][t] = FlatBar}

\* The inputs of the runs of SpecHeld: flat bars of the symbol "A" alone.
HeldData == {d \in RerunData : DOMAIN d \subseteq {"A"}}

EmptyData == [s \in {} |-> <<>>]

\* BacktestConfig, with fractions that keep the arithmetic small.
BacktestConfig(max_open) ==
    [initial_capital |-> R(100),
     position_size_pct |-> Rat(1, 2),
     stop_loss_pct |-> Rat(1, 4),
     take_profit_pct |-> Rat(1, 2),
     max_open_trades |-> max_open,
     slippage_pct |-> Rat(1, 4),
     commission_pct |-> Rat(1, 4)]

Configs == {BacktestConfig(m) : m \in {1, 2}}

\* ------------------------------------------------------------ state
VARIABLES
    config,          \* self._config
    historical_data, \* the argument of the run in progress
    all_timestamps,  \* run's local all_timestamps
    i,               \* index of the bar being simulated (1-based)
    current_data,    \* run's local current_data
    signals,         \* run's local signals (symbol -> outcome)
    sig_idx,         \* position of the loop over signals.items()
    trade,           \* the Trade objects: id -> fields
    trades,          \* self._trades: ids, in ledger order
    open_trades,     \* self._open_trades: key/value pairs in insertion order
    equity,          \* self._equity
    equity_curve,    \* self._equity_curve
    result,          \* what the last finished run returned
    pc,              \* where the run is
    analyzer_log,    \* the calls this run made on the analyzer
    simulated,       \* the timestamps this run has simulated, in order
    prev_dirty,      \* the engine held trades when this run started
    earlier,         \* the result of the run before, as a caller who kept it sees it
    analyze_args,    \* the arguments of the analyze call observed
    analysis,        \* the AnalysisResult that call returned
    classify_args,   \* the arguments of the _classify_sentiment call observed
    classification,  \* what that call returned
    correlation,     \* the CorrelationAnalyzer: _correlation_matrix, _symbols
    correlation_call, \* the last build_correlation_matrix call: argument, result
    cycle,           \* Application._run_cycle: position, tasks left, calls made
    factors,         \* the _calculate_factors call observed: arguments, result
    notify,          \* the cache's events table and the last process_pair_probabilistic call
    publisher        \* the RedisPublisher: _running, _queue, its task, the position of stop

vars == <<config, historical_data, all_timestamps, i, current_data, signals,
          sig_idx, trade, trades, open_trades, equity, equity_curve, result,
          pc, analyzer_log, simulated, prev_dirty, earlier, analyze_args, analysis,
          classify_args, classification, correlation, correlation_call, cycle,
          factors, notify, publisher>>

\* The engine's state, and the state outside the engine.
vars_engine == <<config, historical_data, all_timestamps, i, current_data, signals,
                 sig_idx, trade, trades, open_trades, equity, equity_curve, result,
                 pc, analyzer_log, simulated, prev_dirty, earlier>>
analyze_vars == <<analyze_args, analysis>>
sentiment_vars == <<classify_args, classification>>
correlation_vars == <<correlation, correlation_call>>
service_vars == <<factors, notify, publisher>>
analysis_vars == <<analyze_vars, sentiment_vars, correlation_vars, cycle, service_vars>>

\* ------------------------------------------------------------ helpers
Max(S) == CHOOSE x \in S : \A y \in S : y <= x
Min(S) == CHOOSE x \in S : \A y \in S : x <= y

\* sorted(S)
RECURSIVE Sorted(_)
Sorted(S) == IF S = {} THEN <<>> ELSE <<Min(S)>> \o Sorted(S \ {Min(S)})

\* The keys of a dict over symbols, in iteration order.
Keys(d) == SelectSeq(SymbolOrder, LAMBDA s : s \in DOMAIN d)

\* df.empty, and df[col].iloc[-1] of a time-sorted frame
IsEmpty(df) == DOMAIN df = {}
LastBar(df) == df[Max(DOMAIN df)]

\* self._open_trades, a dict in insertion order: sequence of [key, val].
DictHas(d, k) == \E n \in 1..Len(d) : d[n].key = k
DictGet(d, k) == d[CHOOSE n \in 1..Len(d) : d[n].key = k].val
DictDel(d, k) == SelectSeq(d, LAMBDA e : e.key # k)
DictSet(d, k, v) ==
    IF DictHas(d, k)
    THEN [n \in 1..Len(d) |-> IF d[n].key = k THEN [key |-> k, val |-> v] ELSE d[n]]
    ELSE Append(d, [key |-> k, val |-> v])

\* The ids a ledger or an open set refers to.
Refs(ts, ot) == {ts[n] : n \in 1..Len(ts)} \cup {ot[n].val : n \in 1..Len(ot)}

\* ------------------------------------------------------------ Trade
\* Trade(...): the dataclass constructor; a new trade is OPEN, not exited.
\* `closes` counts the calls of close() on the object.
NewTrade(symbol, direction, entry_price, entry_time, position_size, stop_loss, take_profit) ==
    [symbol |-> symbol, direction |-> direction, entry_price |-> entry_price,
     entry_time |-> entry_time, position_size |-> position_size,
     status |-> OPEN, exit_price |-> NoneR, exit_time |-> 0, pnl |-> Zero,
     stop_loss |-> stop_loss, take_profit |-> take_profit, closes |-> 0]

\* exit_price * (1 - slippage if LONG else 1 + slippage)
SlippedExit(direction, exit_price, slippage) ==
    RMul(exit_price, IF direction = LONG THEN RSub(R(1), slippage)
                                         ELSE RAdd(R(1), slippage))

\* the commission charged for one side only
ClosePnl_OneSide(t, slipped_exit, commission) ==
    LET raw_pnl == IF t.direction = LONG
                   THEN RMul(RSub(slipped_exit, t.entry_price), t.position_size)
                   ELSE RMul(RSub(t.entry_price, slipped_exit), t.position_size)
        trade_value == RMul(t.entry_price, t.position_size)
    IN  RSub(raw_pnl, RMul(trade_value, commission))

\* the P&L Trade.close computes
ClosePnl(t, slipped_exit, commission) ==
    LET raw_pnl == IF t.direction = LONG
                   THEN RMul(RSub(slipped_exit, t.entry_price), t.position_size)
                   ELSE RMul(RSub(t.entry_price, slipped_exit), t.position_size)
        trade_value == RMul(t.entry_price, t.position_size)
        commission_cost == RMul(RMul(trade_value, commission), R(2))
    IN  RSub(raw_pnl, commission_cost)


\* Trade.close that forgets to set the status
Close_StatusKept(t, exit_price, exit_time, status, slippage, commission) ==
    LET x == SlippedExit(t.direction, exit_price, slippage)
    IN  [t EXCEPT !.exit_price = x, !.exit_time = exit_time,
                  !.pnl = ClosePnl(t, x, commission), !.closes = @ + 1]

\* Trade.close
Close(t, exit_price, exit_time, status, slippage, commission) ==
    LET x == SlippedExit(t.direction, exit_price, slippage)
    IN  [t EXCEPT !.exit_price = x, !.exit_time = exit_time, !.status = status,
                  !.pnl = ClosePnl(t, x, commission), !.closes = @ + 1]


\* a _reset that keeps the ledger
ResetTrades_Kept(old) == old

\* ------------------------------------------------------------ engine
\* _reset: the fresh ledger, open set, equity and curve
ResetTrades(old) == <<>>
ResetOpenTrades(old) == <<>>

\* a _reset that empties the lists in place: a result returned earlier
\* shares them
HeldAfterReset_Cleared(r) ==
    IF r.returned
    THEN [r EXCEPT !.trades = <<>>, !.equity_curve = <<config.initial_capital>>]
    ELSE r

\* _reset binds self._trades and self._equity_curve to new lists: the lists
\* a result returned earlier refers to stay as they were
HeldAfterReset(r) == r

\* _get_aligned_timestamps: the loop over data.values(), common_idx starting
\* as None (none |-> TRUE) and empty frames skipped.
RECURSIVE CommonIdx(_, _, _)
CommonIdx(data, keys, acc) ==
    IF keys = <<>> THEN acc
    ELSE LET df == data[Head(keys)]
         IN  IF IsEmpty(df) THEN CommonIdx(data, Tail(keys), acc)
             ELSE IF acc.none
                  THEN CommonIdx(data, Tail(keys), [none |-> FALSE, idx |-> DOMAIN df])
                  ELSE CommonIdx(data, Tail(keys),
                                 [none |-> FALSE, idx |-> acc.idx \cap DOMAIN df])


\* the union of the indexes instead of their intersection
GetAlignedTimestamps_Union(data) ==
    Sorted(UNION {DOMAIN data[s] : s \in DOMAIN data})

GetAlignedTimestamps(data) ==
    IF DOMAIN data = {} THEN <<>>
    ELSE LET c == CommonIdx(data, Keys(data), [none |-> TRUE, idx |-> {}])
         IN  IF c.none \/ c.idx = {} THEN <<>> ELSE Sorted(c.idx)


\* the cutoff taken strictly
GetDataUpTo_Strict(data, timestamp) ==
    [s \in DOMAIN data |->
        [t \in {u \in DOMAIN data[s] : u < timestamp} |-> data[s][t]]]

\* _get_data_up_to: df[df.index <= timestamp] for every symbol
GetDataUpTo(data, timestamp) ==
    [s \in DOMAIN data |->
        [t \in {u \in DOMAIN data[s] : u <= timestamp} |-> data[s][t]]]


\* take-profit tested before stop-loss
SlTpStatus_TargetFirst(t, high, low) ==
    IF t.direction = LONG
    THEN IF RGeq(R(high), t.take_profit) THEN CLOSED_TP
         ELSE IF RLeq(R(low), t.stop_loss) THEN CLOSED_SL
         ELSE OPEN
    ELSE IF RLeq(R(low), t.take_profit) THEN CLOSED_TP
         ELSE IF RGeq(R(high), t.stop_loss) THEN CLOSED_SL
         ELSE OPEN

\* _check_sl_tp, first loop: the status one open trade is to be closed with
\* on a bar, OPEN when it is not to be closed.
SlTpStatus(t, high, low) ==
    IF t.direction = LONG
    THEN IF RLeq(R(low), t.stop_loss) THEN CLOSED_SL
         ELSE IF RGeq(R(high), t.take_profit) THEN CLOSED_TP
         ELSE OPEN
    ELSE IF RGeq(R(high), t.stop_loss) THEN CLOSED_SL
         ELSE IF RLeq(R(low), t.take_profit) THEN CLOSED_TP
         ELSE OPEN

\* _check_sl_tp that closes nothing
TradesToClose_None(ot, hp, cd) == <<>>

\* _check_sl_tp, first loop: trades_to_close, in the order of the open set
RECURSIVE TradesToClose(_, _, _)
TradesToClose(ot, hp, cd) ==
    IF ot = <<>> THEN <<>>
    ELSE LET symbol == Head(ot).key
             t == hp[Head(ot).val]
             rest == TradesToClose(Tail(ot), hp, cd)
         IN  IF symbol \notin DOMAIN cd \/ IsEmpty(cd[symbol]) THEN rest
             ELSE LET st == SlTpStatus(t, LastBar(cd[symbol]).high, LastBar(cd[symbol]).low)
                  IN  IF st = OPEN THEN rest ELSE <<[symbol |-> symbol, status |-> st]>> \o rest

\* One engine state: the heap, the ledger and the open set.
Engine(hp, ts, ot) == [trade |-> hp, trades |-> ts, open_trades |-> ot]


\* the closed trade is left in the open set
RemoveOpen_Kept(ot, symbol) == ot

\* del self._open_trades[symbol]
RemoveOpen(ot, symbol) == DictDel(ot, symbol)

\* _check_sl_tp, second loop: close at the stop or the target price
RECURSIVE CloseSlTp(_, _, _)
CloseSlTp(e, todo, timestamp) ==
    IF todo = <<>> THEN e
    ELSE LET symbol == Head(todo).symbol
             status == Head(todo).status
             id == DictGet(e.open_trades, symbol)
             t == e.trade[id]
             exit_price == IF status = CLOSED_SL THEN t.stop_loss ELSE t.take_profit
             closed == Close(t, exit_price, timestamp, status,
                             config.slippage_pct, config.commission_pct)
         IN  CloseSlTp(Engine([e.trade EXCEPT ![id] = closed],
                              Append(e.trades, id),
                              RemoveOpen(e.open_trades, symbol)),
                       Tail(todo), timestamp)


\* is_opposite with the directions mixed up
IsOpposite_Same(direction, trade_direction) ==
    \/ direction = UPWARD /\ trade_direction = LONG
    \/ direction = DOWNWARD /\ trade_direction = SHORT

\* is_opposite that takes every signal for an opposite one
IsOpposite_Any(direction, trade_direction) == TRUE

\* _process_signal: is_opposite
IsOpposite(direction, trade_direction) ==
    \/ direction = UPWARD /\ trade_direction = SHORT
    \/ direction = DOWNWARD /\ trade_direction = LONG


\* the check off by one
AtMaxOpen_OffByOne(ot, max_open_trades) == Len(ot) > max_open_trades

\* _process_signal: the max-open-trades check that ends the call
AtMaxOpen(ot, max_open_trades) == Len(ot) >= max_open_trades


\* fixed-capital sizing
PositionValue_Fixed(eq, cfg) == RMul(cfg.initial_capital, cfg.position_size_pct)

\* _process_signal: position_value
PositionValue(eq, cfg) == RMul(eq, cfg.position_size_pct)

\* _process_signal: from "Open new trade" on; e is the state reached so far.
OpenTrade(e, symbol, direction, cd, timestamp, eq) ==
    IF AtMaxOpen(e.open_trades, config.max_open_trades) THEN e
    ELSE IF symbol \notin DOMAIN cd \/ IsEmpty(cd[symbol]) THEN e
    ELSE
      LET entry_price == R(LastBar(cd[symbol]).close)
          trade_direction == IF direction = UPWARD THEN LONG ELSE SHORT
          position_value == PositionValue(eq, config)
          position_size == RDiv(position_value, entry_price)
          stop_loss == IF trade_direction = LONG
                       THEN RMul(entry_price, RSub(R(1), config.stop_loss_pct))
                       ELSE RMul(entry_price, RAdd(R(1), config.stop_loss_pct))
          take_profit == IF trade_direction = LONG
                         THEN RMul(entry_price, RAdd(R(1), config.take_profit_pct))
                         ELSE RMul(entry_price, RSub(R(1), config.take_profit_pct))
          slipped_entry == RMul(entry_price,
                                IF trade_direction = LONG
                                THEN RAdd(R(1), config.slippage_pct)
                                ELSE RSub(R(1), config.slippage_pct))
          id == IF DOMAIN e.trade = {} THEN 1 ELSE Max(DOMAIN e.trade) + 1
          t == NewTrade(symbol, trade_direction, slipped_entry, timestamp,
                        position_size, stop_loss, take_profit)
      IN  Engine([k \in DOMAIN e.trade \cup {id} |-> IF k = id THEN t ELSE e.trade[k]],
                 e.trades,
                 DictSet(e.open_trades, symbol, id))

\* the close on an opposite signal that forgets the ledger
CloseOnSignal_NoLedger(e, symbol, cd, timestamp) ==
    LET id == DictGet(e.open_trades, symbol)
        exit_price == R(LastBar(cd[symbol]).close)
        closed == Close(e.trade[id], exit_price, timestamp, CLOSED_SIGNAL,
                        config.slippage_pct, config.commission_pct)
    IN  Engine([e.trade EXCEPT ![id] = closed],
               e.trades,
               RemoveOpen(e.open_trades, symbol))

\* _process_signal: the close of the existing trade on an opposite signal
CloseOnSignal(e, symbol, cd, timestamp) ==
    LET id == DictGet(e.open_trades, symbol)
        exit_price == R(LastBar(cd[symbol]).close)
        closed == Close(e.trade[id], exit_price, timestamp, CLOSED_SIGNAL,
                        config.slippage_pct, config.commission_pct)
    IN  Engine([e.trade EXCEPT ![id] = closed],
               Append(e.trades, id),
               RemoveOpen(e.open_trades, symbol))

\* _process_signal
ProcessSignal(e, symbol, direction, cd, timestamp, eq) ==
    IF direction = CONSOLIDATION THEN e
    ELSE IF DictHas(e.open_trades, symbol)
    THEN IF IsOpposite(direction, e.trade[DictGet(e.open_trades, symbol)].direction)
         THEN OpenTrade(CloseOnSignal(e, symbol, cd, timestamp),
                        symbol, direction, cd, timestamp, eq)
         ELSE e
    ELSE OpenTrade(e, symbol, direction, cd, timestamp, eq)

\* sum(t.pnl for t in self._trades)
ClosedPnl(hp, ts) == RSum([n \in 1..Len(ts) |-> hp[ts[n]].pnl])

\* _update_equity: the unrealized P&L of the open trades at the last closes
RECURSIVE UnrealizedPnl(_, _, _)
UnrealizedPnl(hp, ot, cd) ==
    IF ot = <<>> THEN Zero
    ELSE LET symbol == Head(ot).key
             t == hp[Head(ot).val]
             rest == UnrealizedPnl(hp, Tail(ot), cd)
         IN  IF symbol \notin DOMAIN cd \/ IsEmpty(cd[symbol]) THEN rest
             ELSE LET current_price == R(LastBar(cd[symbol]).close)
                  IN  IF t.direction = LONG
                      THEN RAdd(RMul(RSub(current_price, t.entry_price), t.position_size), rest)
                      ELSE RAdd(RMul(RSub(t.entry_price, current_price), t.position_size), rest)

\* _update_equity that leaves the open trades out
MarkEquity_RealizedOnly(hp, ts, ot, cd) ==
    RAdd(config.initial_capital, ClosedPnl(hp, ts))

\* _update_equity: the new self._equity
MarkEquity(hp, ts, ot, cd) ==
    RAdd(RAdd(config.initial_capital, ClosedPnl(hp, ts)), UnrealizedPnl(hp, ot, cd))


\* the close of the last simulated bar instead of the last available one
EndExitPrice_Simulated(data, symbol) == R(LastBar(current_data[symbol]).close)

\* _close_all_trades: the price a trade of `symbol` is closed at
EndExitPrice(data, symbol) == R(LastBar(data[symbol]).close)

\* _close_all_trades: the loop over list(self._open_trades.items())
RECURSIVE CloseEach(_, _, _, _)
CloseEach(e, todo, data, timestamp) ==
    IF todo = <<>> THEN e
    ELSE LET symbol == Head(todo).key
             id == Head(todo).val
         IN  IF symbol \notin DOMAIN data \/ IsEmpty(data[symbol])
             THEN CloseEach(e, Tail(todo), data, timestamp)
             ELSE CloseEach(
                    Engine([e.trade EXCEPT ![id] =
                               Close(e.trade[id], EndExitPrice(data, symbol), timestamp,
                                     CLOSED_END, config.slippage_pct, config.commission_pct)],
                           Append(e.trades, id),
                           e.open_trades),
                    Tail(todo), data, timestamp)

\* _close_all_trades (timestamp 0 is None)
CloseAll(e, data, timestamp) ==
    IF timestamp = 0 THEN e
    ELSE LET c == CloseEach(e, e.open_trades, data, timestamp)
         IN  Engine(c.trade, c.trades, <<>>)

\* BacktestResult; max_drawdown and sharpe_ratio, which are read off the
\* equity curve and feed nothing back, are left out.
NoResult ==
    [returned |-> FALSE, trades |-> <<>>, total_pnl |-> Zero, win_rate |-> Zero,
     profit_factor |-> Zero, total_trades |-> 0, winning_trades |-> 0,
     losing_trades |-> 0, equity_curve |-> <<>>]

\* _compute_results: profit_factor of a non-empty ledger
ProfitFactor(pnls) ==
    LET gross_profit == RSum(SelectSeq(pnls, LAMBDA x : RGt(x, Zero)))
        gross_loss == RAbs(RSum(SelectSeq(pnls, LAMBDA x : RLt(x, Zero))))
    IN  IF RGt(gross_loss, Zero) THEN RDiv(gross_profit, gross_loss) ELSE Inf

\* _compute_results
ComputeResultsOf(hp, ts, curve) ==
    IF ts = <<>>
    THEN [returned |-> TRUE, trades |-> <<>>, total_pnl |-> Zero, win_rate |-> Zero,
          profit_factor |-> Zero, total_trades |-> 0, winning_trades |-> 0,
          losing_trades |-> 0, equity_curve |-> curve]
    ELSE LET pnls == [n \in 1..Len(ts) |-> hp[ts[n]].pnl]
             total_trades == Len(ts)
             winning_trades == Len(SelectSeq(pnls, LAMBDA x : RGt(x, Zero)))
         IN  [returned |-> TRUE,
              trades |-> [n \in 1..Len(ts) |-> hp[ts[n]]],
              total_pnl |-> RSum(pnls),
              win_rate |-> Rat(winning_trades, total_trades),
              profit_factor |-> ProfitFactor(pnls),
              total_trades |-> total_trades,
              winning_trades |-> winning_trades,
              losing_trades |-> total_trades - winning_trades,
              equity_curve |-> curve]

\* What analyze_batch may return for one symbol: the engine only reads
\* whether the probability is actionable and its direction, and
\* ProbabilityModel._is_actionable never has CONSOLIDATION actionable.
Outcomes == {UPWARD, DOWNWARD, NOT_ACTIONABLE}

\* ------------------------------------------------------------ analysis
\* ProbabilisticAnalyzer.__init__: ProbabilityModel(lookback_periods=24) and
\* VolatilityAnalyzer(atr_period=14).
Lookback == 24
AtrPeriod == 14
\* ProbabilisticAnalyzer.CONFIDENCE_THRESHOLD / HIGH_CONFIDENCE_THRESHOLD
CONFIDENCE_THRESHOLD == Rat(2, 5)
HIGH_CONFIDENCE_THRESHOLD == Rat(3, 5)
\* ProbabilityModel._high_confidence_threshold (its default)
HighConfidenceThreshold == Rat(3, 5)

\* EventType
PROBABILITY_SIGNAL == "probability_signal"
VOLATILITY_ALERT == "volatility_alert"
\* RiskSentiment and VolatilityRegimeGlobal
RISK_ON == "risk_on"
RISK_OFF == "risk_off"
NEUTRAL == "neutral"
RiskSentiment == {RISK_ON, RISK_OFF, NEUTRAL}
LOW == "low"
NORMAL == "normal"
ELEVATED == "elevated"
CRISIS == "crisis"
VolatilityRegimeGlobal == {LOW, NORMAL, ELEVATED, CRISIS}
\* VolatilityRegime (of one instrument)
HIGH == "high"
EXTREME == "extreme"
VolatilityRegime == {LOW, NORMAL, HIGH, EXTREME}

\* The order of the probabilities dict: the insertion order of
\* _calculate_raw_scores, kept by _softmax and by dict(probabilities).
DirOrder == <<UPWARD, DOWNWARD, CONSOLIDATION>>

\* Raw scores are counted in units of ln 2, so that np.exp of a score
\* difference is an exact power of two.
MaxScore == 3
RawScores == [Direction -> 0..MaxScore]
RECURSIVE Pow2(_)
Pow2(k) == IF k = 0 THEN 1 ELSE 2 * Pow2(k - 1)
\* np.exp(k * ln 2)
Exp(k) == IF k >= 0 THEN R(Pow2(k)) ELSE Rat(1, Pow2(-k))

\* sum(probabilities.values())
SumValues(p) == RAdd(RAdd(p[UPWARD], p[DOWNWARD]), p[CONSOLIDATION])

\* _softmax: subtract the maximum, exponentiate, divide by the sum
Softmax(scores) ==
    LET m == Max({scores[d] : d \in Direction})
        exp_values == [d \in Direction |-> Exp(scores[d] - m)]
        total == SumValues(exp_values)
    IN  [d \in Direction |-> RDiv(exp_values[d], total)]

\* the last key holding the greatest value instead of the first
ClassifyDirection_LastMax(p) ==
    LET n == CHOOSE k \in 1..3 :
                /\ \A m \in 1..3 : RGeq(p[DirOrder[k]], p[DirOrder[m]])
                /\ \A m \in (k + 1)..3 : RLt(p[DirOrder[m]], p[DirOrder[k]])
    IN  DirOrder[n]

\* _classify_direction: max(probabilities, key=...), the first key holding
\* the greatest value
ClassifyDirection(p) ==
    LET n == CHOOSE k \in 1..3 :
                /\ \A m \in 1..3 : RGeq(p[DirOrder[k]], p[DirOrder[m]])
                /\ \A m \in 1..(k - 1) : RLt(p[DirOrder[m]], p[DirOrder[k]])
    IN  DirOrder[n]

\* _calculate_confidence: sorted_probs[0] - sorted_probs[1]
CalculateConfidence(p) ==
    LET top == ClassifyDirection(p)
        second == CHOOSE d \in Direction \ {top} :
                     \A e \in Direction \ {top} : RGeq(p[d], p[e])
    IN  RSub(p[top], p[second])

\* _is_actionable that tests the emission threshold instead of the high one
IsActionable_EmissionThreshold(direction, confidence) ==
    RGeq(confidence, CONFIDENCE_THRESHOLD) /\ direction # CONSOLIDATION

\* _is_actionable
IsActionable(direction, confidence) ==
    RGeq(confidence, HighConfidenceThreshold) /\ direction # CONSOLIDATION

\* MarketSentiment, as far as predict reads it; the argument None.
MarketSentiment(risk_sentiment, regime, confidence) ==
    [present |-> TRUE, risk_sentiment |-> risk_sentiment, regime |-> regime,
     confidence |-> confidence]
NoSentiment ==
    [present |-> FALSE, risk_sentiment |-> NEUTRAL, regime |-> NORMAL, confidence |-> Zero]
Sentiments ==
    {NoSentiment} \cup {MarketSentiment(s, g, Rat(1, 2)) : s \in RiskSentiment,
                                                          g \in VolatilityRegimeGlobal}

\* The symbols analysed, and the substring tests of _apply_market_context.
AnalysisSymbols == {"EURUSD=X", "USDJPY=X", "EURJPY=X", "USDCAD=X"}
IsRiskAsset(symbol) == symbol \in {"EURUSD=X", "EURJPY=X"}
IsSafeHaven(symbol) == symbol \in {"USDJPY=X", "EURJPY=X"}

\* MarketContextModifier and ProbabilityResult; None for either.
NoContext == [present |-> FALSE, sentiment |-> NEUTRAL, modifier |-> Zero,
              adjusted_confidence |-> Zero]
NoProbability ==
    [present |-> FALSE, direction |-> CONSOLIDATION,
     probabilities |-> [d \in Direction |-> Zero], confidence |-> Zero,
     is_actionable |-> FALSE, market_context |-> NoContext]

\* the modifier _apply_market_context picks
ContextModifier(symbol, sentiment) ==
    IF sentiment.risk_sentiment = RISK_ON
    THEN IF IsRiskAsset(symbol) THEN Rat(11, 10)
         ELSE IF IsSafeHaven(symbol) THEN Rat(19, 20)
         ELSE R(1)
    ELSE IF sentiment.risk_sentiment = RISK_OFF
    THEN IF IsRiskAsset(symbol) THEN Rat(9, 10)
         ELSE IF IsSafeHaven(symbol) THEN Rat(11, 10)
         ELSE R(1)
    ELSE R(1)

\* the probabilities after the crisis boost and the modifier, before the
\* renormalisation
Adjusted(probabilities, modifier, sentiment) ==
    LET boosted == IF sentiment.regime = CRISIS
                   THEN [probabilities EXCEPT ![CONSOLIDATION] = RAdd(@, Rat(3, 20))]
                   ELSE probabilities
    IN  IF RGt(modifier, R(1))
        THEN [boosted EXCEPT ![UPWARD] = RMul(@, modifier)]
        ELSE IF RLt(modifier, R(1))
        THEN [boosted EXCEPT ![DOWNWARD] = RMul(@, RSub(R(2), modifier))]
        ELSE boosted

\* _apply_market_context without the renormalisation
ApplyMarketContext_Unnormalised(probabilities, symbol, sentiment) ==
    LET modifier == ContextModifier(symbol, sentiment)
        adjusted == Adjusted(probabilities, modifier, sentiment)
    IN  [probabilities |-> adjusted,
         context |-> [present |-> TRUE, sentiment |-> sentiment.risk_sentiment,
                      modifier |-> modifier,
                      adjusted_confidence |->
                          RMul(CalculateConfidence(adjusted), sentiment.confidence)]]

\* _apply_market_context
ApplyMarketContext(probabilities, symbol, sentiment) ==
    LET modifier == ContextModifier(symbol, sentiment)
        raw == Adjusted(probabilities, modifier, sentiment)
        total == SumValues(raw)
        adjusted == IF RGt(total, Zero)
                    THEN [d \in Direction |-> RDiv(raw[d], total)]
                    ELSE raw
    IN  [probabilities |-> adjusted,
         context |-> [present |-> TRUE, sentiment |-> sentiment.risk_sentiment,
                      modifier |-> modifier,
                      adjusted_confidence |->
                          RMul(CalculateConfidence(adjusted), sentiment.confidence)]]

\* A data frame as the analyzers read it: its length, the raw scores its
\* factors give and the volatility regime its ATR% falls in ("nan": no ATR or
\* a price that is not positive).
Frame(bars, scores, atr) == [bars |-> bars, scores |-> scores, atr |-> atr]
BarCounts == {0, 1, AtrPeriod, AtrPeriod + 1, Lookback, Lookback + 1}
Frames == {Frame(n, s, a) : n \in BarCounts, s \in RawScores, a \in {"nan", NORMAL, HIGH, EXTREME}}

\* the result predict builds from probabilities
ResultOf(probabilities, market_context) ==
    LET direction == ClassifyDirection(probabilities)
        confidence == CalculateConfidence(probabilities)
    IN  [present |-> TRUE, direction |-> direction, probabilities |-> probabilities,
         confidence |-> confidence,
         is_actionable |-> IsActionable(direction, confidence),
         market_context |-> market_context]

\* predict that keeps is_actionable as it was before the market context
Predict_StaleActionable(df, symbol, market_sentiment) ==
    IF df.bars = 0 \/ df.bars < Lookback + 1 THEN NoProbability
    ELSE LET probabilities == Softmax(df.scores)
             before == ResultOf(probabilities, NoContext)
         IN  IF market_sentiment.present
             THEN LET ctx == ApplyMarketContext(probabilities, symbol, market_sentiment)
                  IN  [ResultOf(ctx.probabilities, ctx.context)
                          EXCEPT !.is_actionable = before.is_actionable]
             ELSE before

\* predict
Predict(df, symbol, market_sentiment) ==
    IF df.bars = 0 \/ df.bars < Lookback + 1 THEN NoProbability
    ELSE LET probabilities == Softmax(df.scores)
         IN  IF market_sentiment.present
             THEN LET ctx == ApplyMarketContext(probabilities, symbol, market_sentiment)
                  IN  ResultOf(ctx.probabilities, ctx.context)
             ELSE ResultOf(probabilities, NoContext)

\* VolatilityResult; None
NoVolatility == [present |-> FALSE, regime |-> NORMAL]

\* VolatilityAnalyzer.analyze with the length test off by one
VolatilityAnalyze_OffByOne(df) ==
    IF df.bars = 0 THEN NoVolatility
    ELSE IF df.bars < AtrPeriod THEN NoVolatility
    ELSE IF df.atr = "nan" THEN NoVolatility
    ELSE [present |-> TRUE, regime |-> df.atr]

\* VolatilityAnalyzer.analyze
VolatilityAnalyze(df) ==
    IF df.bars = 0 THEN NoVolatility
    ELSE IF df.bars < AtrPeriod + 1 THEN NoVolatility
    ELSE IF df.atr = "nan" THEN NoVolatility
    ELSE [present |-> TRUE, regime |-> df.atr]

\* AnalysisEvent; is_actionable is data["is_actionable"], which only a
\* probability signal carries
AnalysisEvent(event_type, symbol, importance, is_actionable) ==
    [event_type |-> event_type, symbol |-> symbol, importance |-> importance,
     is_actionable |-> is_actionable]

\* _generate_probability_events with the importance always high
GenerateProbabilityEvents_AlwaysHigh(symbol, r) ==
    IF RLt(r.confidence, CONFIDENCE_THRESHOLD) THEN <<>>
    ELSE <<AnalysisEvent(PROBABILITY_SIGNAL, symbol, 2, r.is_actionable)>>

\* _generate_probability_events
GenerateProbabilityEvents(symbol, r) ==
    IF RLt(r.confidence, CONFIDENCE_THRESHOLD) THEN <<>>
    ELSE <<AnalysisEvent(PROBABILITY_SIGNAL, symbol,
                         IF RGeq(r.confidence, HIGH_CONFIDENCE_THRESHOLD) THEN 2 ELSE 1,
                         r.is_actionable)>>

\* _generate_volatility_events
GenerateVolatilityEvents(symbol, v) ==
    IF v.regime \notin {HIGH, EXTREME} THEN <<>>
    ELSE <<AnalysisEvent(VOLATILITY_ALERT, symbol, IF v.regime = EXTREME THEN 2 ELSE 1,
                         FALSE)>>

\* AnalysisResult; the value held before analyze has returned
NoAnalysis ==
    [returned |-> FALSE, symbol |-> "", probability |-> NoProbability,
     volatility |-> NoVolatility, events |-> <<>>]

\* ProbabilisticAnalyzer.analyze
AnalyzeOf(df, symbol, market_sentiment) ==
    LET volatility_result == VolatilityAnalyze(df)
        probability_result == Predict(df, symbol, market_sentiment)
        prob_events == IF probability_result.present
                       THEN GenerateProbabilityEvents(symbol, probability_result)
                       ELSE <<>>
        vol_events == IF volatility_result.present
                      THEN GenerateVolatilityEvents(symbol, volatility_result)
                      ELSE <<>>
    IN  [returned |-> TRUE, symbol |-> symbol, probability |-> probability_result,
         volatility |-> volatility_result, events |-> prob_events \o vol_events]

\* get_actionable_signals for the results of one analyze call
GetActionableSignals(r) ==
    IF r.probability.present /\ r.probability.is_actionable
    THEN SelectSeq(r.events, LAMBDA e : e.event_type = PROBABILITY_SIGNAL)
    ELSE <<>>

\* The arguments of an analyze call, and the value held when none is made.
AnalyzeArgs == [df : Frames, symbol : AnalysisSymbols, market_sentiment : Sentiments]
NoArgs == [df |-> Frame(0, [d \in Direction |-> 0], "nan"), symbol |-> "",
           market_sentiment |-> NoSentiment]

\* ------------------------------------------------------------ sentiment
\* MarketSentimentAggregator.RISK_THRESHOLD / SAFE_HAVEN_THRESHOLD
RISK_THRESHOLD == Rat(3, 10)
SAFE_HAVEN_THRESHOLD == Rat(3, 10)

\* min and max of two floats
RMin(a, b) == IF RLt(b, a) THEN b ELSE a
RMax(a, b) == IF RGt(b, a) THEN b ELSE a
\* max(-1.0, min(1.0, x))
Clamp(x) == RMax(R(-1), RMin(R(1), x))
\* _calculate_risk_indicators: risk_score from the average ROC (in percent)
RiskScore(avg_roc) == Clamp(RDiv(avg_roc, R(10)))
\* _calculate_safe_haven_indicators: safe_haven_score from the average score
SafeHavenScore(avg_score) == Clamp(avg_score)

\* The average ROCs (percent) and average safe-haven scores (tenths) tried.
MaxRoc == 12
AvgRocs == {R(k) : k \in (-MaxRoc)..MaxRoc}
AvgScores == {Rat(k, 10) : k \in (-MaxRoc)..MaxRoc}

\* RiskIndicators, SafeHavenIndicators and GlobalVolatilityIndicators, as far
\* as _classify_sentiment reads them.
ClassifyArgs ==
    [risk : [risk_score : {RiskScore(a) : a \in AvgRocs}],
     safe_haven : [safe_haven_score : {SafeHavenScore(a) : a \in AvgScores},
                   gold_roc_24h : {Zero, R(2)},
                   jpy_strength : {Zero, Rat(1, 2)},
                   chf_strength : {Zero, Rat(1, 2)}],
     volatility : [regime : VolatilityRegimeGlobal]]
NoClassifyArgs ==
    [risk |-> [risk_score |-> Zero],
     safe_haven |-> [safe_haven_score |-> Zero, gold_roc_24h |-> Zero,
                     jpy_strength |-> Zero, chf_strength |-> Zero],
     volatility |-> [regime |-> NORMAL]]
NoClassification ==
    [returned |-> FALSE, sentiment |-> NEUTRAL, confidence |-> Zero, factor |-> ""]

\* the sentiment, confidence and factor _classify_sentiment holds before the
\* test for elevated volatility
ClassifyByScore(risk, safe_haven) ==
    LET net_score == RSub(risk.risk_score, safe_haven.safe_haven_score)
    IN  IF RGt(net_score, RISK_THRESHOLD)
        THEN [sentiment |-> RISK_ON,
              confidence |-> RMin(R(1), RAdd(Rat(1, 2), RAbs(net_score))),
              factor |-> IF RGt(risk.risk_score, Rat(3, 10))
                         THEN "crypto_strength" ELSE "risk_appetite"]
        ELSE IF RLt(net_score, RNeg(SAFE_HAVEN_THRESHOLD))
                \/ RGt(safe_haven.safe_haven_score, SAFE_HAVEN_THRESHOLD)
        THEN [sentiment |-> RISK_OFF,
              confidence |->
                  RMin(R(1), RAdd(Rat(1, 2), RMax(RAbs(net_score),
                                                  safe_haven.safe_haven_score))),
              factor |-> IF RGt(safe_haven.gold_roc_24h, R(1)) THEN "gold_demand"
                         ELSE IF RGt(safe_haven.jpy_strength, Rat(3, 10)) THEN "jpy_strength"
                         ELSE IF RGt(safe_haven.chf_strength, Rat(3, 10)) THEN "chf_strength"
                         ELSE "safe_haven_demand"]
        ELSE [sentiment |-> NEUTRAL,
              confidence |-> RSub(Rat(1, 2), RAbs(net_score)),
              factor |-> "balanced_market"]

\* _classify_sentiment with the crisis test placed after the scores
ClassifySentiment_CrisisLast(risk, safe_haven, volatility) ==
    LET c == ClassifyByScore(risk, safe_haven)
    IN  IF c.sentiment # NEUTRAL
        THEN [returned |-> TRUE, sentiment |-> c.sentiment, confidence |-> c.confidence,
              factor |-> c.factor]
        ELSE IF volatility.regime = CRISIS
        THEN [returned |-> TRUE, sentiment |-> NEUTRAL, confidence |-> Rat(2, 5),
              factor |-> "crisis_volatility"]
        ELSE [returned |-> TRUE, sentiment |-> c.sentiment, confidence |-> c.confidence,
              factor |-> c.factor]

\* _classify_sentiment with the elevated discount turned into a markup
ClassifySentiment_Markup(risk, safe_haven, volatility) ==
    IF volatility.regime = CRISIS
    THEN [returned |-> TRUE, sentiment |-> NEUTRAL, confidence |-> Rat(2, 5),
          factor |-> "crisis_volatility"]
    ELSE LET c == ClassifyByScore(risk, safe_haven)
         IN  IF volatility.regime = ELEVATED
             THEN [returned |-> TRUE, sentiment |-> c.sentiment,
                   confidence |-> RMul(c.confidence, Rat(23, 20)),
                   factor |-> c.factor \o "_elevated_vol"]
             ELSE [returned |-> TRUE, sentiment |-> c.sentiment,
                   confidence |-> c.confidence, factor |-> c.factor]

\* _classify_sentiment
ClassifySentiment(risk, safe_haven, volatility) ==
    IF volatility.regime = CRISIS
    THEN [returned |-> TRUE, sentiment |-> NEUTRAL, confidence |-> Rat(2, 5),
          factor |-> "crisis_volatility"]
    ELSE LET c == ClassifyByScore(risk, safe_haven)
         IN  IF volatility.regime = ELEVATED
             THEN [returned |-> TRUE, sentiment |-> c.sentiment,
                   confidence |-> RMul(c.confidence, Rat(17, 20)),
                   factor |-> c.factor \o "_elevated_vol"]
             ELSE [returned |-> TRUE, sentiment |-> c.sentiment,
                   confidence |-> c.confidence, factor |-> c.factor]

\* No call of _classify_sentiment has been made.
SentimentIdle ==
    /\ classify_args = NoClassifyArgs
    /\ classification = NoClassification

\* ------------------------------------------------------------ correlation
\* ProbabilisticAnalyzer.__init__: correlation_min_points
MinDataPoints == 20
\* CorrelationAnalyzer.__init__: high_correlation_threshold
HighThreshold == Rat(7, 10)

\* A price frame as build_correlation_matrix reads it: the number of its rows
\* inside the lookback period, the period its index covers, and the sign its
\* log-returns take (frames of one sign move together, of opposite signs
\* against each other).
PriceFrame(points, window, sign) == [points |-> points, window |-> window, sign |-> sign]
PriceFrames ==
    {PriceFrame(0, 1, 1)} \cup
    {PriceFrame(n, w, g) : n \in {MinDataPoints - 1, MinDataPoints}, w \in {1, 2}, g \in {-1, 1}}
PriceData == UNION {[S -> PriceFrames] : S \in SUBSET Symbols}

\* pd.DataFrame(), and a correlation matrix over symbols
EmptyMatrix == [empty |-> TRUE, columns |-> <<>>, corr |-> <<>>]
\* returns_df.corr(method="pearson") of frames whose returns are equal up to
\* the sign
PearsonMatrix(price_data, included) ==
    [empty |-> FALSE, columns |-> included,
     corr |-> [a \in {included[n] : n \in 1..Len(included)} |->
                 [b \in {included[n] : n \in 1..Len(included)} |->
                     R(price_data[a].sign * price_data[b].sign)]]]

\* the symbols whose log-returns build_correlation_matrix keeps
WithReturns(price_data) ==
    SelectSeq(Keys(price_data),
              LAMBDA s : /\ price_data[s].points # 0
                         /\ ~(price_data[s].points < MinDataPoints)
                         /\ price_data[s].points - 1 >= MinDataPoints - 1)
\* len(returns_df) after dropna: the rows every kept series has
Overlap(price_data, included) ==
    IF \A m, n \in 1..Len(included) :
             price_data[included[m]].window = price_data[included[n]].window
    THEN Min({price_data[included[n]].points - 1 : n \in 1..Len(included)})
    ELSE 0

\* CorrelationAnalyzer: _correlation_matrix (None until one is built) and
\* _symbols
NewCorrelationAnalyzer == [matrix_none |-> TRUE, matrix |-> EmptyMatrix, symbols |-> <<>>]

\* build_correlation_matrix: the analyzer afterwards and the value returned
BuildCorrelationMatrix(self, price_data) ==
    IF DOMAIN price_data = {}
    THEN [self |-> self, returned |-> EmptyMatrix]
    ELSE LET included == WithReturns(price_data)
         IN  IF Len(included) < 2
             THEN [self |-> self, returned |-> EmptyMatrix]
             ELSE IF Overlap(price_data, included) < MinDataPoints - 1
             THEN [self |-> self, returned |-> EmptyMatrix]
             ELSE LET built == PearsonMatrix(price_data, included)
                  IN  [self |-> [matrix_none |-> FALSE, matrix |-> built,
                                 symbols |-> built.columns],
                       returned |-> built]

InSeq(s, x) == \E n \in 1..Len(s) : s[n] = x

\* get_correlation
GetCorrelation(self, symbol1, symbol2) ==
    IF self.matrix_none \/ self.matrix.empty THEN NoneR
    ELSE IF ~InSeq(self.symbols, symbol1) \/ ~InSeq(self.symbols, symbol2) THEN NoneR
    ELSE self.matrix.corr[symbol1][symbol2]

\* get_average_correlation
GetAverageCorrelation(self, symbol) ==
    IF self.matrix_none \/ self.matrix.empty THEN NoneR
    ELSE IF ~InSeq(self.symbols, symbol) THEN NoneR
    ELSE LET others == SelectSeq(self.matrix.columns, LAMBDA s : s # symbol)
         IN  IF others = <<>> THEN NoneR
             ELSE RDiv(RSum([n \in 1..Len(others) |->
                                RAbs(self.matrix.corr[symbol][others[n]])]),
                       R(Len(others)))

\* get_correlated_pairs with the default threshold: the other symbols found
GetCorrelatedPairs(self, symbol) ==
    IF self.matrix_none \/ self.matrix.empty THEN <<>>
    ELSE IF ~InSeq(self.symbols, symbol) THEN <<>>
    ELSE SelectSeq(self.symbols,
                   LAMBDA s : /\ s # symbol
                              /\ RGeq(RAbs(self.matrix.corr[symbol][s]), HighThreshold))

\* No call of build_correlation_matrix has been made.
NoCorrelationCall == [called |-> FALSE, price_data |-> EmptyData, returned |-> EmptyMatrix]
CorrelationIdle ==
    /\ correlation = NewCorrelationAnalyzer
    /\ correlation_call = NoCorrelationCall

\* No polling cycle has run.
NoCycle == [pc |-> "idle", n |-> 0, skipped |-> FALSE, pending |-> {}, log |-> <<>>]
CycleIdle == cycle = NoCycle

\* ------------------------------------------------------------ factors
\* What _calculate_roc, _calculate_atr_percent and _calculate_volume_ratio
\* return (None included), and the average correlation predict is given.
RocValues == {NoneR, R(-2), Zero, R(2)}
AtrPercents == {NoneR, Rat(1, 2), R(1), R(2)}
VolumeRatios == {NoneR, Rat(1, 2), R(1), R(2)}
AvgCorrelations == {NoneR, Zero, Rat(1, 4), Rat(1, 2), R(1)}
FactorArgs ==
    [roc : RocValues, atr_pct : AtrPercents, volume_ratio : VolumeRatios,
     avg_correlation : AvgCorrelations]

\* Python's truth value of a float or None
Truthy(x) == x # NoneR /\ x # Zero

\* _calculate_factors
CalculateFactors(a) ==
    [roc |-> IF a.roc # NoneR THEN a.roc ELSE Zero,
     volatility |-> IF a.atr_pct # NoneR THEN a.atr_pct ELSE R(1),
     volume |-> IF a.volume_ratio # NoneR THEN a.volume_ratio ELSE R(1),
     correlation |-> IF Truthy(a.avg_correlation) THEN a.avg_correlation ELSE Rat(1, 2)]

\* No call of _calculate_factors has been made.
NoFactors ==
    [returned |-> FALSE,
     args |-> [roc |-> NoneR, atr_pct |-> NoneR, volume_ratio |-> NoneR,
               avg_correlation |-> NoneR],
     value |-> [roc |-> Zero, volatility |-> Zero, volume |-> Zero, correlation |-> Zero]]
\* ------------------------------------------------------------ notifications
\* cfg.telegram.message_cooldown_minutes * 60
SecondsPerMinute == 60

\* The clock runs over the whole minutes 0..MaxClock, read in seconds.
MaxClock == 3
ClockValues == {SecondsPerMinute * k : k \in 0..MaxClock}

\* message_cooldown_minutes of the configurations tried
CooldownMinutes == {0, 2}

\* The events of one AnalysisResult, as process_pair_probabilistic reads them:
\* at most one probability signal, then at most one volatility alert.
SignalEvent(direction, importance) ==
    [event_type |-> PROBABILITY_SIGNAL, importance |-> importance,
     data |-> [direction |-> direction]]
AlertEvent(regime) ==
    [event_type |-> VOLATILITY_ALERT,
     importance |-> IF regime = EXTREME THEN 2 ELSE 1,
     data |-> [regime |-> regime]]
ProbabilityEvents == {SignalEvent(UPWARD, imp) : imp \in {1, 2}}
AlertEvents == {AlertEvent(regime) : regime \in {HIGH, EXTREME}}
ResultEvents ==
    {<<>>} \cup {<<p>> : p \in ProbabilityEvents} \cup {<<v>> : v \in AlertEvents}
           \cup {<<p, v>> : p \in ProbabilityEvents, v \in AlertEvents}

\* kind = f"prob_{direction}" or f"vol_{regime}"
EventKind(event) ==
    IF event.event_type = PROBABILITY_SIGNAL
    THEN <<"prob", event.data.direction>>
    ELSE <<"vol", event.data.regime>>

\* Cache.get_last_sent: the row's last_sent_ts as <<ts>>, None as <<>>
GetLastSent(events, symbol, timeframe, kind) ==
    IF <<symbol, timeframe, kind>> \in DOMAIN events
    THEN <<events[<<symbol, timeframe, kind>>]>>
    ELSE <<>>

\* Cache.set_last_sent: insert the row, or update it on conflict
SetLastSent(events, symbol, timeframe, kind, ts) ==
    [key \in DOMAIN events \cup {<<symbol, timeframe, kind>>} |->
        IF key = <<symbol, timeframe, kind>> THEN ts ELSE events[key]]

\* a throttle that lets every event through
ShouldSend_Always(cooldown_met, importance_check) == TRUE

\* should_send = cooldown_met or importance_check
ShouldSend(cooldown_met, importance_check) ==
    cooldown_met \/ importance_check

\* The loop over result.events.  st holds the events table of the cache, the
\* decisions taken so far and, per key, the time of the last notification of
\* importance 1 that was sent.
RECURSIVE SendLoop(_, _, _, _, _, _)
SendLoop(st, events, symbol, timeframe, now_ts, cooldown_sec) ==
    IF events = <<>>
    THEN st
    ELSE LET event == Head(events)
             kind == EventKind(event)
             key == <<symbol, timeframe, kind>>
             last_ts == GetLastSent(st.events, symbol, timeframe, kind)
             time_diff == now_ts - (IF last_ts = <<>> THEN 0 ELSE last_ts[1])
             cooldown_met == last_ts = <<>> \/ time_diff >= cooldown_sec
             importance_check == event.importance >= 2
             should_send == ShouldSend(cooldown_met, importance_check)
             table == IF should_send
                      THEN SetLastSent(st.events, symbol, timeframe, kind, now_ts)
                      ELSE st.events
             low_before == IF key \in DOMAIN st.low THEN <<st.low[key]>> ELSE <<>>
             decision == [key |-> key, importance |-> event.importance,
                          now_ts |-> now_ts, recorded |-> last_ts,
                          sent |-> should_send,
                          after |-> GetLastSent(table, symbol, timeframe, kind),
                          low |-> low_before]
             low == IF should_send /\ event.importance < 2
                    THEN [k \in DOMAIN st.low \cup {key} |->
                             IF k = key THEN now_ts ELSE st.low[k]]
                    ELSE st.low
         IN  SendLoop([events |-> table,
                       decisions |-> Append(st.decisions, decision),
                       low |-> low],
                      Tail(events), symbol, timeframe, now_ts, cooldown_sec)

\* The cache after Cache.init on a new database, no pair processed yet.
NoNotify ==
    [cooldown_minutes |-> 0, now_ts |-> 0,
     events |-> [key \in {} |-> 0], decisions |-> <<>>, low |-> [key \in {} |-> 0]]

\* ------------------------------------------------------------ publisher
\* _publish_message puts a failed message back while qsize() < 1000
RequeueLimit == 1000

\* The queue holds at most MaxQueue messages when stop is called.
MaxQueue == 3

\* The types of OutgoingMessage, each with a channel of its own.
MessageTypes == {"status", "signal", "metrics"}

\* _publish_message on the queue left after the message was taken from it:
\* ok says whether the publish went through.
PublishMessage(queue, message, ok) ==
    IF ok
    THEN [queue |-> queue, last |-> "published"]
    ELSE IF Len(queue) < RequeueLimit
         THEN [queue |-> Append(queue, message), last |-> "requeued"]
         ELSE [queue |-> queue, last |-> "dropped"]

\* RedisPublisher.__init__
NoPublisher ==
    [running |-> FALSE, queue |-> <<>>, task |-> "none", pc |-> "new", last |-> "none"]

\* No call has been made on the services outside the cycle.
ServiceIdle ==
    /\ factors = NoFactors
    /\ notify = NoNotify
    /\ publisher = NoPublisher

\* ------------------------------------------------------------ actions
\* BacktestEngine.__init__: the fields of a new engine, no run started
EngineIdle ==
    /\ historical_data = EmptyData
    /\ all_timestamps = <<>>
    /\ i = 0
    /\ current_data = EmptyData
    /\ signals = EmptyData
    /\ sig_idx = 0
    /\ trade = <<>>
    /\ trades = <<>>
    /\ open_trades = <<>>
    /\ equity = config.initial_capital
    /\ equity_curve = <<>>
    /\ result = NoResult
    /\ pc = "idle"
    /\ analyzer_log = <<>>
    /\ simulated = <<>>
    /\ prev_dirty = FALSE
    /\ earlier = NoResult

\* No call of analyze has been made.
AnalyzeIdle ==
    /\ analyze_args = NoArgs
    /\ analysis = NoAnalysis

\* No call has been made outside the engine.
AnalysisIdle ==
    /\ AnalyzeIdle
    /\ SentimentIdle
    /\ CorrelationIdle
    /\ CycleIdle
    /\ ServiceIdle

\* BacktestEngine.__init__ (the engine is built with one of Configs)
Init ==
    /\ config \in Configs
    /\ EngineIdle
    /\ AnalysisIdle

\* run, up to the bar loop: _reset, the two early returns,
\* _get_aligned_timestamps and update_correlations.  Trade objects the engine
\* no longer refers to after _reset leave the heap.
RunEngine(data) ==
    /\ pc \in {"idle", "done"}
    /\ LET ts == ResetTrades(trades)
           ot == ResetOpenTrades(open_trades)
           aligned == IF DOMAIN data = {} THEN <<>> ELSE GetAlignedTimestamps(data)
       IN  /\ trades' = ts
           /\ open_trades' = ot
           /\ trade' = [id \in DOMAIN trade \cap Refs(ts, ot) |-> trade[id]]
           /\ all_timestamps' = aligned
           /\ IF aligned = <<>>
              THEN /\ pc' = "results"
                   /\ analyzer_log' = <<>>
                   /\ i' = 0
              ELSE /\ pc' = "bar"
                   /\ analyzer_log' = <<[call |-> "update_correlations", data |-> data]>>
                   /\ i' = 1
    /\ prev_dirty' = (trades # <<>> \/ open_trades # <<>>)
    /\ equity' = config.initial_capital
    /\ equity_curve' = <<config.initial_capital>>
    /\ historical_data' = data
    /\ current_data' = EmptyData
    /\ signals' = EmptyData
    /\ sig_idx' = 0
    /\ simulated' = <<>>
    /\ result' = NoResult
    /\ UNCHANGED config

\* run with an analyzer that is a stand-in: its calls are only recorded
Run(data) ==
    /\ RunEngine(data)
    /\ UNCHANGED earlier
    /\ UNCHANGED analysis_vars

\* run, called by a caller who kept the result of the run before
RunHeld(data) ==
    /\ RunEngine(data)
    /\ earlier' = HeldAfterReset(result)
    /\ UNCHANGED analysis_vars

\* The bar loop, first part: _get_data_up_to and _check_sl_tp.
CheckSlTp ==
    /\ pc = "bar"
    /\ LET timestamp == all_timestamps[i]
           cd == GetDataUpTo(historical_data, timestamp)
           e == CloseSlTp(Engine(trade, trades, open_trades),
                          TradesToClose(open_trades, trade, cd), timestamp)
       IN  /\ current_data' = cd
           /\ trade' = e.trade
           /\ trades' = e.trades
           /\ open_trades' = e.open_trades
           /\ simulated' = Append(simulated, timestamp)
    /\ pc' = "analyze"
    /\ UNCHANGED <<config, historical_data, all_timestamps, i, signals, sig_idx,
                   equity, equity_curve, result, analyzer_log, prev_dirty>>
    /\ UNCHANGED earlier
    /\ UNCHANGED analysis_vars

\* The bar loop: signals = analyzer.analyze_batch(current_data, timeframe);
\* the analyzer answers for every symbol of the data it is given.
AnalyzeBatch ==
    /\ pc = "analyze"
    /\ \E sig \in [DOMAIN current_data -> Outcomes] : signals' = sig
    /\ sig_idx' = 1
    /\ analyzer_log' = Append(analyzer_log, [call |-> "analyze_batch", data |-> current_data])
    /\ pc' = "signals"
    /\ UNCHANGED <<config, historical_data, all_timestamps, i, current_data, trade,
                   trades, open_trades, equity, equity_curve, result, simulated,
                   prev_dirty>>
    /\ UNCHANGED earlier
    /\ UNCHANGED analysis_vars

\* The bar loop: one iteration of the loop over signals.items().
HandleSignal ==
    /\ pc = "signals"
    /\ sig_idx <= Len(Keys(signals))
    /\ LET symbol == Keys(signals)[sig_idx]
           e == IF signals[symbol] = NOT_ACTIONABLE
                THEN Engine(trade, trades, open_trades)
                ELSE ProcessSignal(Engine(trade, trades, open_trades), symbol,
                                   signals[symbol], current_data, all_timestamps[i], equity)
       IN  /\ trade' = e.trade
           /\ trades' = e.trades
           /\ open_trades' = e.open_trades
    /\ sig_idx' = sig_idx + 1
    /\ UNCHANGED <<config, historical_data, all_timestamps, i, current_data, signals,
                   equity, equity_curve, result, pc, analyzer_log, simulated,
                   prev_dirty>>
    /\ UNCHANGED earlier
    /\ UNCHANGED analysis_vars

\* The bar loop, last part: _update_equity and the append to the curve.
UpdateEquity ==
    /\ pc = "signals"
    /\ sig_idx > Len(Keys(signals))
    /\ equity' = MarkEquity(trade, trades, open_trades, current_data)
    /\ equity_curve' = Append(equity_curve, equity')
    /\ IF i < Len(all_timestamps)
       THEN i' = i + 1 /\ pc' = "bar"
       ELSE i' = i /\ pc' = "close_all"
    /\ UNCHANGED <<config, historical_data, all_timestamps, current_data, signals,
                   sig_idx, trade, trades, open_trades, result, analyzer_log,
                   simulated, prev_dirty>>
    /\ UNCHANGED earlier
    /\ UNCHANGED analysis_vars

\* After the loop: _close_all_trades(historical_data, all_timestamps[-1]).
CloseAllTrades ==
    /\ pc = "close_all"
    /\ LET e == CloseAll(Engine(trade, trades, open_trades), historical_data,
                         all_timestamps[Len(all_timestamps)])
       IN  /\ trade' = e.trade
           /\ trades' = e.trades
           /\ open_trades' = e.open_trades
    /\ pc' = "results"
    /\ UNCHANGED <<config, historical_data, all_timestamps, i, current_data, signals,
                   sig_idx, equity, equity_curve, result, analyzer_log, simulated,
                   prev_dirty>>
    /\ UNCHANGED earlier
    /\ UNCHANGED analysis_vars

\* return self._compute_results()
ComputeResults ==
    /\ pc = "results"
    /\ result' = ComputeResultsOf(trade, trades, equity_curve)
    /\ pc' = "done"
    /\ UNCHANGED <<config, historical_data, all_timestamps, i, current_data, signals,
                   sig_idx, trade, trades, open_trades, equity, equity_curve,
                   analyzer_log, simulated, prev_dirty>>
    /\ UNCHANGED earlier
    /\ UNCHANGED analysis_vars

Step ==
    \/ CheckSlTp
    \/ AnalyzeBatch
    \/ HandleSignal
    \/ UpdateEquity
    \/ CloseAllTrades
    \/ ComputeResults

\* One run of a newly built engine.
Next ==
    \/ \E data \in DataSets : pc = "idle" /\ Run(data)
    \/ Step

Spec == Init /\ [][Next]_vars

\* Runs one after another on the same engine.
NextRerun ==
    \/ \E data \in RerunData : Run(data)
    \/ Step

SpecRerun == Init /\ [][NextRerun]_vars

\* Runs of one engine instance whose caller keeps the result of the run before.
NextHeld ==
    \/ /\ pc \in {"idle", "done"}
       /\ \E data \in HeldData : RunHeld(data)
    \/ Step

SpecHeld == Init /\ [][NextHeld]_vars

\* ------------------------------------------------------------ metrics
\* _compute_results called on an engine whose ledger and equity curve were
\* set directly, the way the metrics tests set them.
MaxLedger == 3
PnlValues == {R(-2), R(-1), Zero, R(1), R(3)}
\* a trade as the metrics tests build it: constructed, then pnl and status set
LedgerTrade(p) ==
    [NewTrade("A", LONG, R(4), 1, R(1), Zero, Zero) EXCEPT !.pnl = p, !.status = CLOSED_TP]

InitLedger ==
    /\ config \in Configs
    /\ historical_data = EmptyData
    /\ all_timestamps = <<>>
    /\ i = 0
    /\ current_data = EmptyData
    /\ signals = EmptyData
    /\ sig_idx = 0
    /\ \E n \in 0..MaxLedger :
          /\ \E pnls \in [1..n -> PnlValues] : trade = [k \in 1..n |-> LedgerTrade(pnls[k])]
          /\ trades = [k \in 1..n |-> k]
    /\ open_trades = <<>>
    /\ equity = config.initial_capital
    /\ equity_curve = <<config.initial_capital>>
    /\ result = NoResult
    /\ pc = "results"
    /\ analyzer_log = <<>>
    /\ simulated = <<>>
    /\ prev_dirty = FALSE
    /\ earlier = NoResult
    /\ AnalysisIdle

NextLedger == ComputeResults

SpecLedger == InitLedger /\ [][NextLedger]_vars

\* ------------------------------------------------------------ analyze
\* One call of ProbabilisticAnalyzer.analyze on a frame, a symbol and a
\* market sentiment (or None).
InitAnalyze ==
    /\ config = BacktestConfig(1)
    /\ EngineIdle
    /\ analyze_args \in AnalyzeArgs
    /\ analysis = NoAnalysis
    /\ SentimentIdle
    /\ CorrelationIdle
    /\ CycleIdle
    /\ ServiceIdle

Analyze ==
    /\ ~analysis.returned
    /\ analysis' = AnalyzeOf(analyze_args.df, analyze_args.symbol,
                             analyze_args.market_sentiment)
    /\ UNCHANGED <<analyze_args, vars_engine, sentiment_vars, correlation_vars, cycle, service_vars>>

NextAnalyze == Analyze

SpecAnalyze == InitAnalyze /\ [][NextAnalyze]_vars

\* ------------------------------------------------------------ classify
\* One call of MarketSentimentAggregator._classify_sentiment.
InitClassify ==
    /\ config = BacktestConfig(1)
    /\ EngineIdle
    /\ AnalyzeIdle
    /\ classify_args \in ClassifyArgs
    /\ classification = NoClassification
    /\ CorrelationIdle
    /\ CycleIdle
    /\ ServiceIdle

Classify ==
    /\ ~classification.returned
    /\ classification' = ClassifySentiment(classify_args.risk, classify_args.safe_haven,
                                           classify_args.volatility)
    /\ UNCHANGED <<classify_args, vars_engine, analyze_vars, correlation_vars, cycle, service_vars>>

NextClassify == Classify

SpecClassify == InitClassify /\ [][NextClassify]_vars

\* ------------------------------------------------------------ correlations
\* update_correlations / build_correlation_matrix called again and again on
\* one analyzer.
InitCorrelation ==
    /\ config = BacktestConfig(1)
    /\ EngineIdle
    /\ AnalyzeIdle
    /\ SentimentIdle
    /\ CorrelationIdle
    /\ CycleIdle
    /\ ServiceIdle

UpdateCorrelations(all_data) ==
    /\ LET r == BuildCorrelationMatrix(correlation, all_data)
       IN  /\ correlation' = r.self
           /\ correlation_call' = [called |-> TRUE, price_data |-> all_data,
                                   returned |-> r.returned]
    /\ UNCHANGED <<vars_engine, analyze_vars, sentiment_vars, cycle, service_vars>>

NextCorrelation == \E all_data \in PriceData : UpdateCorrelations(all_data)

SpecCorrelation == InitCorrelation /\ [][NextCorrelation]_vars

\* ------------------------------------------------------------ polling cycles
\* Application.run: _run_cycle again and again on one analyzer.
MaxCycles == 2

InitCycle ==
    /\ config = BacktestConfig(1)
    /\ EngineIdle
    /\ AnalyzeIdle
    /\ SentimentIdle
    /\ CorrelationIdle
    /\ CycleIdle
    /\ ServiceIdle

\* all_data of _run_cycle: the fetched 1h candles that are not empty
AllData(fetched) ==
    [s \in {x \in DOMAIN fetched : fetched[x].points # 0} |-> fetched[s]]

\* _run_cycle up to the creation of the per-instrument tasks. `fetched` is
\* what the provider answers for the pairs; a provider that fails answers
\* with an empty frame.
RunCycle(paused, market_open, fetched) ==
    /\ cycle.pc = "idle"
    /\ cycle.n < MaxCycles
    /\ IF paused \/ ~market_open
       THEN /\ cycle' = [pc |-> "idle", n |-> cycle.n + 1, skipped |-> TRUE,
                         pending |-> {}, log |-> <<>>]
            /\ UNCHANGED correlation_vars
       ELSE LET all_data == AllData(fetched)
            IN  IF DOMAIN all_data # {}
                THEN LET r == BuildCorrelationMatrix(correlation, all_data)
                     IN  /\ correlation' = r.self
                         /\ correlation_call' = [called |-> TRUE, price_data |-> all_data,
                                                 returned |-> r.returned]
                         /\ cycle' = [pc |-> "tasks", n |-> cycle.n + 1, skipped |-> FALSE,
                                      pending |-> Symbols,
                                      log |-> <<[call |-> "update_correlations",
                                                 symbol |-> "", average |-> NoneR]>>]
                ELSE /\ cycle' = [pc |-> "tasks", n |-> cycle.n + 1, skipped |-> FALSE,
                                  pending |-> Symbols, log |-> <<>>]
                     /\ UNCHANGED correlation_vars
    /\ UNCHANGED <<vars_engine, analyze_vars, sentiment_vars, service_vars>>

\* process_pair_probabilistic, one task of the cycle: it fetches its own
\* candles and analyzes them unless they are empty. analyze reads the average
\* correlation of the symbol from the matrix the analyzer holds.
ProcessPair(symbol, candles_empty) ==
    /\ cycle.pc = "tasks"
    /\ symbol \in cycle.pending
    /\ cycle' = [cycle EXCEPT
                    !.pending = @ \ {symbol},
                    !.log = IF candles_empty THEN @
                            ELSE Append(@, [call |-> "analyze", symbol |-> symbol,
                                            average |-> GetAverageCorrelation(correlation, symbol)])]
    /\ UNCHANGED <<vars_engine, analyze_vars, sentiment_vars, correlation_vars, service_vars>>

\* asyncio.gather returns: the cycle is over
EndCycle ==
    /\ cycle.pc = "tasks"
    /\ cycle.pending = {}
    /\ cycle' = [cycle EXCEPT !.pc = "idle"]
    /\ UNCHANGED <<vars_engine, analyze_vars, sentiment_vars, correlation_vars, service_vars>>

NextCycle ==
    \/ \E paused, market_open \in BOOLEAN, fetched \in [Symbols -> PriceFrames] :
           RunCycle(paused, market_open, fetched)
    \/ \E symbol \in Symbols, candles_empty \in BOOLEAN : ProcessPair(symbol, candles_empty)
    \/ EndCycle

SpecCycle == InitCycle /\ [][NextCycle]_vars

\* ------------------------------------------------------------ analyzer run
\* One run of a newly built engine with a ProbabilisticAnalyzer, and calls of
\* analyze made on that analyzer directly before the run.
StrongScores ==
    {[d \in Direction |-> IF d = x THEN MaxScore ELSE 0] : x \in {UPWARD, DOWNWARD}}
DirectArgs ==
    {a \in AnalyzeArgs : /\ a.df.scores \in StrongScores
                         /\ a.symbol = "EURUSD=X"
                         /\ ~a.market_sentiment.present}

\* historical_data as build_correlation_matrix reads it
PriceOf(data) ==
    [s \in DOMAIN data |-> PriceFrame(Cardinality(DOMAIN data[s]), 1, 1)]

\* what run passes to _process_signal for one AnalysisResult
SignalOf(r) ==
    IF r.probability.present /\ r.probability.is_actionable
    THEN r.probability.direction
    ELSE NOT_ACTIONABLE

InitAnalyzerRun ==
    /\ config \in Configs
    /\ EngineIdle
    /\ AnalysisIdle

\* analyze called directly
AnalyzeDirect(args) ==
    /\ pc = "idle"
    /\ ~analysis.returned
    /\ analyze_args' = args
    /\ analysis' = AnalyzeOf(args.df, args.symbol, args.market_sentiment)
    /\ UNCHANGED <<vars_engine, sentiment_vars, correlation_vars, cycle, service_vars>>

\* run, up to the bar loop, with the analyzer's update_correlations
RunAnalyzer(data) ==
    /\ pc = "idle"
    /\ RunEngine(data)
    /\ UNCHANGED earlier
    /\ IF all_timestamps' = <<>>
       THEN UNCHANGED correlation_vars
       ELSE LET r == BuildCorrelationMatrix(correlation, PriceOf(data))
            IN  /\ correlation' = r.self
                /\ correlation_call' = [called |-> TRUE, price_data |-> PriceOf(data),
                                        returned |-> r.returned]
    /\ UNCHANGED <<analyze_vars, sentiment_vars, cycle, service_vars>>

\* The bar loop: analyze_batch of the analyzer, which calls analyze for every
\* frame of current_data. The frames of the run differ in what their factors
\* would score.
AnalyzeBatchAnalyzer ==
    /\ pc = "analyze"
    /\ \E scores \in [DOMAIN current_data -> StrongScores] :
          LET df == [s \in DOMAIN current_data |->
                        Frame(Cardinality(DOMAIN current_data[s]), scores[s], NORMAL)]
              results == [s \in DOMAIN current_data |-> AnalyzeOf(df[s], s, NoSentiment)]
              order == Keys(current_data)
              last == order[Len(order)]
          IN  /\ signals' = [s \in DOMAIN current_data |-> SignalOf(results[s])]
              /\ analyze_args' = [df |-> df[last], symbol |-> last,
                                  market_sentiment |-> NoSentiment]
              /\ analysis' = results[last]
    /\ sig_idx' = 1
    /\ analyzer_log' = Append(analyzer_log, [call |-> "analyze_batch", data |-> current_data])
    /\ pc' = "signals"
    /\ UNCHANGED <<config, historical_data, all_timestamps, i, current_data, trade,
                   trades, open_trades, equity, equity_curve, result, simulated,
                   prev_dirty>>
    /\ UNCHANGED earlier
    /\ UNCHANGED <<sentiment_vars, correlation_vars, cycle, service_vars>>

NextAnalyzerRun ==
    \/ \E args \in DirectArgs : AnalyzeDirect(args)
    \/ \E data \in DataSets : RunAnalyzer(data)
    \/ CheckSlTp
    \/ AnalyzeBatchAnalyzer
    \/ HandleSignal
    \/ UpdateEquity
    \/ CloseAllTrades
    \/ ComputeResults

SpecAnalyzerRun == InitAnalyzerRun /\ [][NextAnalyzerRun]_vars

\* ------------------------------------------------------------ factors
\* One call of ProbabilityModel._calculate_factors, as predict makes it.
InitFactors ==
    /\ config = BacktestConfig(1)
    /\ EngineIdle
    /\ AnalyzeIdle
    /\ SentimentIdle
    /\ CorrelationIdle
    /\ CycleIdle
    /\ factors \in {[NoFactors EXCEPT !.args = a] : a \in FactorArgs}
    /\ notify = NoNotify
    /\ publisher = NoPublisher

Factors ==
    /\ ~factors.returned
    /\ factors' = [factors EXCEPT !.returned = TRUE, !.value = CalculateFactors(factors.args)]
    /\ UNCHANGED <<vars_engine, analyze_vars, sentiment_vars, correlation_vars, cycle, notify, publisher>>

NextFactors == Factors

SpecFactors == InitFactors /\ [][NextFactors]_vars

\* ------------------------------------------------------------ throttling
\* The agent starts with one of the cooldowns and a new cache database.
InitNotify ==
    /\ config = BacktestConfig(1)
    /\ EngineIdle
    /\ AnalyzeIdle
    /\ SentimentIdle
    /\ CorrelationIdle
    /\ CycleIdle
    /\ factors = NoFactors
    /\ notify \in {[NoNotify EXCEPT !.cooldown_minutes = m] : m \in CooldownMinutes}
    /\ publisher = NoPublisher

\* process_pair_probabilistic of one symbol and timeframe, with candles, at
\* the time now_ts; events are the events of the result analyze returned.
\* The clock does not run backwards.
ProcessPairProbabilistic(symbol, timeframe, now_ts, events) ==
    /\ now_ts >= notify.now_ts
    /\ LET cooldown_sec == notify.cooldown_minutes * SecondsPerMinute
           st == SendLoop([events |-> notify.events, decisions |-> <<>>,
                           low |-> notify.low],
                          events, symbol, timeframe, now_ts, cooldown_sec)
       IN  notify' = [notify EXCEPT !.now_ts = now_ts,
                                    !.events = st.events,
                                    !.decisions = st.decisions,
                                    !.low = st.low]
    /\ UNCHANGED <<vars_engine, analyze_vars, sentiment_vars, correlation_vars, cycle, factors, publisher>>

NextNotify ==
    \E now_ts \in ClockValues, events \in ResultEvents :
        ProcessPairProbabilistic("A", "1h", now_ts, events)

SpecNotify == InitNotify /\ [][NextNotify]_vars

\* ------------------------------------------------------------ publisher run
publisher_rest == <<vars_engine, analyze_vars, sentiment_vars, correlation_vars, cycle,
                    factors, notify>>

\* A RedisPublisher after start: _running is set and the task of
\* _publisher_loop waits on the queue.
InitPublisher ==
    /\ config = BacktestConfig(1)
    /\ EngineIdle
    /\ AnalyzeIdle
    /\ SentimentIdle
    /\ CorrelationIdle
    /\ CycleIdle
    /\ factors = NoFactors
    /\ notify = NoNotify
    /\ publisher = [NoPublisher EXCEPT !.running = TRUE, !.task = "waiting",
                                       !.pc = "started"]

\* publish_status, publish_signal, publish_metrics, publish_probability_signal:
\* the message is put on the queue (callers before stop only).
Enqueue(message) ==
    /\ publisher.pc = "started"
    /\ Len(publisher.queue) < MaxQueue
    /\ publisher' = [publisher EXCEPT !.queue = Append(@, message)]
    /\ UNCHANGED publisher_rest

\* One round of _publisher_loop: the task takes a message and publishes it,
\* then tests _running.  After stop has cleared the flag the round is its last.
LoopPublish(ok) ==
    /\ publisher.task = "waiting"
    /\ publisher.pc \in {"started", "flushing"}
    /\ publisher.queue # <<>>
    /\ LET r == PublishMessage(Tail(publisher.queue), Head(publisher.queue), ok)
       IN  publisher' = [publisher EXCEPT
                            !.queue = r.queue,
                            !.last = r.last,
                            !.task = IF publisher.running THEN "waiting" ELSE "exited"]
    /\ UNCHANGED publisher_rest

\* stop, up to its loop: _running = False
Stop ==
    /\ publisher.pc = "started"
    /\ publisher' = [publisher EXCEPT !.running = FALSE, !.pc = "flushing"]
    /\ UNCHANGED publisher_rest

\* stop, one round of `while not self._queue.empty()`: get_nowait and
\* _publish_message, which does not raise
Flush(ok) ==
    /\ publisher.pc = "flushing"
    /\ publisher.queue # <<>>
    /\ LET r == PublishMessage(Tail(publisher.queue), Head(publisher.queue), ok)
       IN  publisher' = [publisher EXCEPT !.queue = r.queue, !.last = r.last]
    /\ UNCHANGED publisher_rest

\* stop, after the loop: the task is cancelled and awaited
Cancel ==
    /\ publisher.pc = "flushing"
    /\ publisher.queue = <<>>
    /\ publisher' = [publisher EXCEPT !.task = "cancelled", !.pc = "stopped"]
    /\ UNCHANGED publisher_rest

\* The steps of a stop that has been called.
StopSteps ==
    \/ \E ok \in BOOLEAN : Flush(ok)
    \/ Cancel

NextPublisher ==
    \/ \E message \in MessageTypes : Enqueue(message)
    \/ \E ok \in BOOLEAN : LoopPublish(ok)
    \/ Stop
    \/ StopSteps

\* The event loop keeps running a stop that can take a step; whether a
\* publish goes through is up to Redis.
SpecPublisher == InitPublisher /\ [][NextPublisher]_vars /\ WF_vars(StopSteps)

\* ------------------------------------------------------------ claims
\* Notions the claims are stated with, written from the claims' words.
OpenIds == {id \in DOMAIN trade : trade[id].status = OPEN}
InOpenSet(ot, id) == \E n \in 1..Len(ot) : ot[n].val = id
InLedger(ts, id) == \E n \in 1..Len(ts) : ts[n] = id
Actionable(o) == o \in {UPWARD, DOWNWARD}
\* a step of the loop over the signals is about to handle symbol s
Handling(s) ==
    /\ pc = "signals"
    /\ sig_idx <= Len(Keys(signals))
    /\ Keys(signals)[sig_idx] = s
\* the bar of symbol s at the timestamp being simulated
NowTs == all_timestamps[i]
BarNow(s) == historical_data[s][NowTs]
\* a price slipped against the trader at exit
ExitAgainst(direction, price) ==
    IF direction = LONG THEN RMul(R(price), RSub(R(1), config.slippage_pct))
                        ELSE RMul(R(price), RAdd(R(1), config.slippage_pct))

\* C1: at every point of a run and for every symbol, at most one trade of
\* that symbol has status OPEN.
C1_OneOpenPerSymbol ==
    \A s \in Symbols : Cardinality({id \in OpenIds : trade[id].symbol = s}) <= 1

\* C1 witness: a symbol has an OPEN trade while an earlier trade of the same
\* symbol is closed.
C1_Witness ==
    \E a, b \in DOMAIN trade :
        /\ trade[a].symbol = trade[b].symbol
        /\ trade[a].status = OPEN
        /\ trade[b].status \in Terminal

\* C2: a trade starts OPEN in the open set; close is applied to it at most
\* once and moves it to a terminal status; a closed trade never changes again
\* and is never in the open set.
C2_ClosedOnce ==
    [][/\ \A id \in DOMAIN trade' \ DOMAIN trade :
            /\ trade'[id].status = OPEN
            /\ trade'[id].closes = 0
            /\ InOpenSet(open_trades', id)
       /\ \A id \in DOMAIN trade \cap DOMAIN trade' :
            /\ trade[id].status = OPEN =>
                  \/ trade'[id] = trade[id]
                  \/ /\ trade'[id].status \in Terminal
                     /\ trade'[id].closes = 1
                     /\ ~InOpenSet(open_trades', id)
            /\ trade[id].status # OPEN =>
                  /\ trade'[id] = trade[id]
                  /\ ~InOpenSet(open_trades', id)]_vars

\* C2 witness: the run is over with trades closed by a stop, by a signal and
\* by the end of the run.
C2_Witness ==
    /\ pc = "done"
    /\ \A st \in {CLOSED_SL, CLOSED_SIGNAL, CLOSED_END} :
          \E id \in DOMAIN trade : trade[id].status = st /\ trade[id].closes = 1

\* The step that handles an actionable signal for symbol s against the
\* direction of the trade s has open.
OppositeSignal(s) ==
    /\ Handling(s)
    /\ DictHas(open_trades, s)
    /\ \/ signals[s] = UPWARD /\ trade[DictGet(open_trades, s)].direction = SHORT
       \/ signals[s] = DOWNWARD /\ trade[DictGet(open_trades, s)].direction = LONG

ClosedBySignal(s) ==
    LET id == DictGet(open_trades, s)
    IN  /\ trade'[id].status = CLOSED_SIGNAL
        /\ trade'[id].exit_time = NowTs
        /\ trade'[id].exit_price = ExitAgainst(trade[id].direction, BarNow(s).close)
        /\ trades' = Append(trades, id)

\* C3 as claimed: an opposite signal closes the open trade of the symbol at
\* the bar's close with CLOSED_SIGNAL and leaves the symbol without an open
\* trade.
C3_Original ==
    [][\A s \in Symbols :
          OppositeSignal(s) => ClosedBySignal(s) /\ ~DictHas(open_trades', s)]_vars

\* C3 amended: an opposite signal closes the open trade of the symbol at the
\* bar's close with CLOSED_SIGNAL and, in the same call, opens a new trade of
\* that symbol in the direction of the signal, entered at that timestamp.
C3_CloseAndReverse ==
    [][\A s \in Symbols :
          OppositeSignal(s) =>
             /\ ClosedBySignal(s)
             /\ DictHas(open_trades', s)
             /\ LET new == DictGet(open_trades', s)
                IN  /\ new \notin DOMAIN trade
                    /\ trade'[new].status = OPEN
                    /\ trade'[new].entry_time = NowTs
                    /\ trade'[new].direction =
                          (IF signals[s] = UPWARD THEN LONG ELSE SHORT)]_vars

\* C3 witness: on this bar a trade of a symbol was closed by a signal and a
\* trade of the same symbol in the other direction is open since this bar.
C3_Witness ==
    /\ pc = "signals"
    /\ \E a, b \in DOMAIN trade :
          /\ trade[a].symbol = trade[b].symbol
          /\ trade[a].status = CLOSED_SIGNAL /\ trade[a].exit_time = NowTs
          /\ trade[b].status = OPEN /\ trade[b].entry_time = NowTs
          /\ trade[a].direction # trade[b].direction

\* C4: never more than max_open_trades trades are OPEN; an actionable signal
\* for a symbol without an open trade opens a trade only when fewer than
\* max_open_trades are open, and otherwise changes nothing.
C4_MaxOpenTrades ==
    [][/\ Cardinality({id \in DOMAIN trade' : trade'[id].status = OPEN})
             <= config.max_open_trades
       /\ \A s \in Symbols :
             (Handling(s) /\ Actionable(signals[s]) /\ ~DictHas(open_trades, s)) =>
                IF Len(open_trades) < config.max_open_trades
                THEN \/ DictHas(open_trades', s) /\ Len(open_trades') = Len(open_trades) + 1
                     \/ IsEmpty(current_data[s]) /\ UNCHANGED <<trade, trades, open_trades>>
                ELSE UNCHANGED <<trade, trades, open_trades>>]_vars

\* C4 witness: as many trades as allowed are open, and the actionable signal
\* of a symbol that has bars and no open trade has just been handled.
C4_Witness ==
    /\ pc = "signals"
    /\ sig_idx > 1
    /\ Len(open_trades) = config.max_open_trades
    /\ LET s == Keys(signals)[sig_idx - 1]
       IN  /\ Actionable(signals[s])
           /\ ~IsEmpty(current_data[s])
           /\ ~DictHas(open_trades, s)

\* Whether the bar being simulated reaches the stop and the target of t.
ReachesStop(t) ==
    IF t.direction = LONG THEN RLeq(R(BarNow(t.symbol).low), t.stop_loss)
                          ELSE RGeq(R(BarNow(t.symbol).high), t.stop_loss)
ReachesTarget(t) ==
    IF t.direction = LONG THEN RGeq(R(BarNow(t.symbol).high), t.take_profit)
                          ELSE RLeq(R(BarNow(t.symbol).low), t.take_profit)

\* C5: in the per-bar check a trade whose stop and target are both reached is
\* closed CLOSED_SL, one whose target alone is reached is closed CLOSED_TP,
\* and one that reaches neither stays OPEN.
C5_StopBeforeTarget ==
    [][pc = "bar" =>
         \A n \in 1..Len(open_trades) :
            LET id == open_trades[n].val
                t == trade[id]
            IN  /\ (ReachesStop(t) /\ ReachesTarget(t)) => trade'[id].status = CLOSED_SL
                /\ (~ReachesStop(t) /\ ReachesTarget(t)) => trade'[id].status = CLOSED_TP
                /\ (~ReachesStop(t) /\ ~ReachesTarget(t)) =>
                      trade'[id] = t /\ InOpenSet(open_trades', id)]_vars

\* C5 witness: the check of this bar closed, at its stop, a trade whose
\* target the bar reaches too.
C5_Witness ==
    /\ pc = "analyze"
    /\ \E id \in DOMAIN trade :
          /\ trade[id].status = CLOSED_SL
          /\ trade[id].exit_time = NowTs
          /\ ReachesStop(trade[id]) /\ ReachesTarget(trade[id])

\* The last timestamp of the run, and the last close a series holds.
LastTs == all_timestamps[Len(all_timestamps)]
LastAvailableClose(s) == historical_data[s][Max(DOMAIN historical_data[s])].close

\* C6: the close at the end of a run that simulated a bar closes every trade
\* still open with CLOSED_END, at the last simulated timestamp and at the
\* symbol's last available close (slipped), and appends it to the ledger; when
\* the run returns no trade is OPEN.
C6_ClosedAtEnd ==
    [][/\ pc = "close_all" =>
            /\ \A n \in 1..Len(open_trades) :
                  LET id == open_trades[n].val
                      t == trade[id]
                  IN  /\ trade'[id].status = CLOSED_END
                      /\ trade'[id].exit_time = LastTs
                      /\ trade'[id].exit_price =
                            ExitAgainst(t.direction, LastAvailableClose(t.symbol))
                      /\ InLedger(trades', id) /\ ~InLedger(trades, id)
            /\ open_trades' = <<>>
       /\ (pc' = "done" /\ simulated' # <<>>) =>
            /\ \A id \in DOMAIN trade' : trade'[id].status # OPEN
            /\ \A n \in 1..Len(result'.trades) : result'.trades[n].status # OPEN
            /\ open_trades' = <<>>]_vars

\* C6 witness: the run has returned and a trade was closed at the end at a
\* close later than, and different from, the close of the last simulated bar.
C6_Witness ==
    /\ pc = "done"
    /\ \E id \in DOMAIN trade :
          LET s == trade[id].symbol
          IN  /\ trade[id].status = CLOSED_END
              /\ Max(DOMAIN historical_data[s]) > LastTs
              /\ LastAvailableClose(s) # historical_data[s][LastTs].close

\* The data the analyze_batch calls of this run were given, in order.
Batches == SelectSeq(analyzer_log, LAMBDA c : c.call = "analyze_batch")

\* C7: the n-th analyze_batch call of a run is made on the n-th simulated
\* timestamp t and is given, for every symbol, exactly the bars of that
\* symbol with a timestamp <= t.
C7_NoLookahead ==
    /\ Len(Batches) = (IF pc = "analyze" THEN Len(simulated) - 1 ELSE Len(simulated))
    /\ \A n \in 1..Len(Batches) :
          LET d == Batches[n].data
              t == simulated[n]
          IN  /\ DOMAIN d = DOMAIN historical_data
              /\ \A s \in DOMAIN d :
                    /\ DOMAIN d[s] = {u \in DOMAIN historical_data[s] : u <= t}
                    /\ \A u \in DOMAIN d[s] : d[s][u] = historical_data[s][u]

\* C7 witness: analyze_batch has been called on a bar that is not the last
\* bar of some series.
C7_Witness ==
    /\ pc = "signals"
    /\ Len(Batches) = Len(simulated)
    /\ \E s \in DOMAIN historical_data :
          \E u \in DOMAIN historical_data[s] : u > NowTs

\* The timestamps present in every series of a set of symbols.
CommonTo(S) ==
    {t \in Timestamps : \A s \in S : t \in DOMAIN historical_data[s]}
NonEmptySeries == {s \in DOMAIN historical_data : DOMAIN historical_data[s] # {}}

\* C8 as claimed: a run over some series simulates, in ascending order and
\* once each, exactly the timestamps present in every supplied series.
C8_Original ==
    (pc = "done" /\ DOMAIN historical_data # {}) =>
        simulated = Sorted(CommonTo(DOMAIN historical_data))

\* C8 amended: a run simulates, in ascending order and once each, exactly the
\* timestamps present in every supplied series that is not empty (none when
\* no supplied series has a bar).
C8_AlignedOverNonEmpty ==
    pc = "done" =>
        simulated = (IF NonEmptySeries = {} THEN <<>> ELSE Sorted(CommonTo(NonEmptySeries)))

\* C8 witness: the run is over, it simulated a bar, and a timestamp of one
\* series is missing from another series that has bars.
C8_Witness ==
    /\ pc = "done"
    /\ simulated # <<>>
    /\ \E a, b \in NonEmptySeries : DOMAIN historical_data[a] # DOMAIN historical_data[b]

RealizedPnl(hp, ts) == RSum([n \in 1..Len(ts) |-> hp[ts[n]].pnl])
Unrealized(t, price) ==
    IF t.direction = LONG THEN RMul(RSub(R(price), t.entry_price), t.position_size)
                          ELSE RMul(RSub(t.entry_price, R(price)), t.position_size)
RECURSIVE UnrealizedOf(_, _)
UnrealizedOf(hp, ids) ==
    IF ids = {} THEN Zero
    ELSE LET id == CHOOSE x \in ids : TRUE
         IN  RAdd(Unrealized(hp[id], BarNow(hp[id].symbol).close),
                  UnrealizedOf(hp, ids \ {id}))

\* C10 as claimed: a trade is opened with position_size * (unslipped entry
\* price) = position_size_pct * (initial capital + realized P&L of all trades
\* closed so far, this bar's included + unrealized P&L of the trades open at
\* that moment).
C10_Original ==
    [][\A id \in DOMAIN trade' \ DOMAIN trade :
          LET others == {x \in DOMAIN trade : InOpenSet(open_trades', x)}
              running == RAdd(RAdd(config.initial_capital, RealizedPnl(trade', trades')),
                              UnrealizedOf(trade', others))
          IN  RMul(trade'[id].position_size, R(BarNow(trade'[id].symbol).close))
                 = RMul(running, config.position_size_pct)]_vars

\* The place of a simulated timestamp in all_timestamps.
BarIndex(t) == CHOOSE k \in 1..Len(all_timestamps) : all_timestamps[k] = t

\* C10 amended: a trade entered on the k-th bar has position_size *
\* (unslipped entry price) = position_size_pct * (the equity marked at the end
\* of the bar before: the k-th entry of the equity curve, the initial capital
\* for the first bar).
C10_SizedOnLastMark ==
    \A id \in DOMAIN trade :
        LET t == trade[id]
        IN  RMul(t.position_size, R(historical_data[t.symbol][t.entry_time].close))
               = RMul(equity_curve[BarIndex(t.entry_time)], config.position_size_pct)

\* C10 witness: a trade was opened on the second bar, after a trade was
\* closed on that bar, with the equity marked on the first bar off the
\* initial capital.
C10_Witness ==
    /\ Len(all_timestamps) >= 2
    /\ Len(equity_curve) >= 2
    /\ equity_curve[2] # config.initial_capital
    /\ \E a, b \in DOMAIN trade :
          /\ trade[a].entry_time = all_timestamps[2]
          /\ trade[b].exit_time = all_timestamps[2]
          /\ trade[b].status \in {CLOSED_SL, CLOSED_TP, CLOSED_SIGNAL}

\* The price the engine hands to Trade.close for a closed trade: the stop or
\* the target level, the current close, or the last available close.
GivenExit(t) ==
    CASE t.status = CLOSED_SL -> t.stop_loss
      [] t.status = CLOSED_TP -> t.take_profit
      [] t.status = CLOSED_SIGNAL -> R(historical_data[t.symbol][t.exit_time].close)
      [] OTHER -> R(LastAvailableClose(t.symbol))
\* The claimed P&L of a close, from the claim's words.
ClaimedPnl(direction, entry, exit, size, commission) ==
    RSub(RMul(IF direction = LONG THEN RSub(exit, entry) ELSE RSub(entry, exit), size),
         RMul(RMul(RMul(entry, size), commission), R(2)))
\* The claim's example: long, entry 1.1000, size 1000, closed at 1.1100 with
\* slippage 0 and commission 0.001.
ExampleTrade == NewTrade("A", LONG, Rat(11, 10), 1, R(1000), Zero, Zero)
ExampleClosed == Close(ExampleTrade, Rat(111, 100), 2, CLOSED_TP, Zero, Rat(1, 1000))

\* C11: Trade.close sets exit_price to the given price slipped against the
\* trader (long: price*(1-slippage), short: price*(1+slippage)) and pnl to the
\* directional price delta times position_size minus the round-trip commission
\* entry_price*position_size*commission*2; the example (long 1.1000 -> 1.1100,
\* size 1000, slippage 0, commission 0.001) gives 7.8.
C11_ClosePnl ==
    /\ \A id \in DOMAIN trade :
          LET t == trade[id]
          IN  t.status \in Terminal =>
                /\ t.exit_price =
                      RMul(GivenExit(t),
                           IF t.direction = LONG THEN RSub(R(1), config.slippage_pct)
                                                 ELSE RAdd(R(1), config.slippage_pct))
                /\ t.pnl = ClaimedPnl(t.direction, t.entry_price, t.exit_price,
                                      t.position_size, config.commission_pct)
    /\ ExampleClosed.exit_price = Rat(111, 100)
    /\ ExampleClosed.pnl = Rat(78, 10)

\* C11 witness: a long trade closed at its stop and a short trade closed at
\* the end of the run, both with a P&L that is not zero.
C11_Witness ==
    \E a, b \in DOMAIN trade :
        /\ trade[a].status = CLOSED_SL /\ trade[a].direction = LONG
        /\ trade[b].status = CLOSED_END /\ trade[b].direction = SHORT
        /\ trade[a].pnl # Zero /\ trade[b].pnl # Zero

\* The ledger's P&Ls, and the gross profit and loss the claim speaks of.
LedgerPnls == [n \in 1..Len(trades) |-> trade[trades[n]].pnl]
HasWinner == \E n \in 1..Len(trades) : RGt(LedgerPnls[n], Zero)
HasLoser == \E n \in 1..Len(trades) : RLt(LedgerPnls[n], Zero)
RECURSIVE SumWhere(_, _)
SumWhere(s, positive) ==
    IF s = <<>> THEN Zero
    ELSE IF (positive /\ RGt(Head(s), Zero)) \/ (~positive /\ RLt(Head(s), Zero))
         THEN RAdd(Head(s), SumWhere(Tail(s), positive))
         ELSE SumWhere(Tail(s), positive)

\* C12 as claimed: profit_factor is gross profit / |gross loss| when there
\* are losing trades, +infinity when there is a winning trade and no losing
\* trade, 0.0 when there are no trades; it is +infinity only when profits
\* exist.
C12_Original ==
    result.returned =>
        /\ HasLoser => result.profit_factor =
                          RDiv(SumWhere(LedgerPnls, TRUE), RAbs(SumWhere(LedgerPnls, FALSE)))
        /\ (HasWinner /\ ~HasLoser) => result.profit_factor = Inf
        /\ trades = <<>> => result.profit_factor = Zero
        /\ result.profit_factor = Inf => HasWinner

\* C12, the diverging case reached: _compute_results has returned +infinity
\* for a ledger of break-even trades only.
C12_Witness ==
    /\ result.returned
    /\ trades # <<>>
    /\ \A n \in 1..Len(trades) : LedgerPnls[n] = Zero
    /\ result.profit_factor = Inf

\* The PROBABILITY_SIGNAL events of the returned AnalysisResult.
SignalEvents == SelectSeq(analysis.events, LAMBDA e : e.event_type = PROBABILITY_SIGNAL)

\* C13: analyze emits exactly one PROBABILITY_SIGNAL event for the symbol iff
\* a probability result exists with confidence >= 0.4, and none otherwise;
\* the event's importance is 2 iff confidence >= 0.6, else 1.
C13_SignalEvents ==
    analysis.returned =>
        LET r == analysis.probability
            emits == r.present /\ RGeq(r.confidence, Rat(2, 5))
        IN  /\ Len(SignalEvents) = IF emits THEN 1 ELSE 0
            /\ emits =>
                  /\ SignalEvents[1].symbol = analyze_args.symbol
                  /\ SignalEvents[1].importance =
                        IF RGeq(r.confidence, Rat(3, 5)) THEN 2 ELSE 1

\* C13 witness: a signal of importance 1 was emitted for a result whose
\* confidence lies between the two thresholds.
C13_Witness ==
    /\ analysis.returned
    /\ Len(SignalEvents) = 1
    /\ SignalEvents[1].importance = 1
    /\ RGeq(analysis.probability.confidence, Rat(2, 5))
    /\ RLt(analysis.probability.confidence, Rat(3, 5))

\* The margin between the greatest and the second greatest of three
\* probabilities, from the claim's words.
Margin(p) ==
    LET g == CHOOSE d \in Direction : \A e \in Direction : RGeq(p[d], p[e])
        s == CHOOSE d \in Direction \ {g} : \A e \in Direction \ {g} : RGeq(p[d], p[e])
    IN  RSub(p[g], p[s])
\* What predict would have said before the market context was applied.
BeforeContext == ResultOf(Softmax(analyze_args.df.scores), NoContext)

\* C14: in every ProbabilityResult returned by predict, is_actionable is true
\* iff confidence >= high_confidence_threshold and direction # CONSOLIDATION,
\* direction and confidence being those of the returned probabilities (the
\* adjusted ones when a sentiment was supplied).
C14_ActionableOfReturned ==
    (analysis.returned /\ analysis.probability.present) =>
        LET r == analysis.probability
        IN  /\ \A d \in Direction : RGeq(r.probabilities[r.direction], r.probabilities[d])
            /\ r.confidence = Margin(r.probabilities)
            /\ r.is_actionable <=>
                  (RGeq(r.confidence, Rat(3, 5)) /\ r.direction # CONSOLIDATION)

\* C14 witness: a sentiment was supplied and the result is not actionable
\* although the probabilities before the adjustment were, for the same
\* direction.
C14_Witness ==
    /\ analysis.returned /\ analysis.probability.present
    /\ analyze_args.market_sentiment.present
    /\ BeforeContext.is_actionable
    /\ ~analysis.probability.is_actionable
    /\ analysis.probability.direction = BeforeContext.direction

\* C15: for every ProbabilityResult returned by predict, with or without a
\* sentiment (CRISIS regime and every modifier value included), the three
\* direction probabilities are each >= 0 and sum to 1.0 within 1e-6.
C15_ProbabilitiesNormalised ==
    (analysis.returned /\ analysis.probability.present) =>
        LET p == analysis.probability.probabilities
        IN  /\ \A d \in Direction : RGeq(p[d], Zero)
            /\ RLeq(RAbs(RSub(SumValues(p), R(1))), Rat(1, 1000000))

\* C15 witness: a result came back for a CRISIS sentiment with a modifier
\* other than 1, whose adjusted probabilities summed to more than 1 before
\* the renormalisation.
C15_Witness ==
    /\ analysis.returned /\ analysis.probability.present
    /\ analyze_args.market_sentiment.present
    /\ analyze_args.market_sentiment.regime = CRISIS
    /\ analysis.probability.market_context.modifier = Rat(9, 10)
    /\ RGt(SumValues(Adjusted(BeforeContext.probabilities,
                              analysis.probability.market_context.modifier,
                              analyze_args.market_sentiment)), R(1))

\* The net score the RISK_ON and RISK_OFF rules look at.
NetScore == RSub(classify_args.risk.risk_score, classify_args.safe_haven.safe_haven_score)

\* C16: _classify_sentiment returns NEUTRAL with confidence 0.4 and factor
\* crisis_volatility whenever the global volatility regime is CRISIS, for
\* every risk_score and safe_haven_score: the crisis test comes before the
\* RISK_ON and RISK_OFF rules and the ELEVATED discount is not applied.
C16_CrisisOverride ==
    (classification.returned /\ classify_args.volatility.regime = CRISIS) =>
        /\ classification.sentiment = NEUTRAL
        /\ classification.confidence = Rat(2, 5)
        /\ classification.factor = "crisis_volatility"

\* C16 witness: the call returned for a CRISIS regime with the greatest net
\* score there is, far above the risk-on threshold.
C16_Witness ==
    /\ classification.returned
    /\ classify_args.volatility.regime = CRISIS
    /\ classify_args.risk.risk_score = R(1)
    /\ classify_args.safe_haven.safe_haven_score = R(-1)
    /\ RGt(NetScore, Rat(3, 10))

\* C17: for every risk_score and safe_haven_score in [-1,1] and every
\* volatility regime, the confidence _classify_sentiment returns lies in
\* [0,1]: in the RISK_ON, RISK_OFF, NEUTRAL and crisis branches and after
\* the ELEVATED x0.85 discount.
C17_ConfidenceInUnitInterval ==
    /\ RLeq(R(-1), classify_args.risk.risk_score)
    /\ RLeq(classify_args.risk.risk_score, R(1))
    /\ RLeq(R(-1), classify_args.safe_haven.safe_haven_score)
    /\ RLeq(classify_args.safe_haven.safe_haven_score, R(1))
    /\ classification.returned =>
          /\ RLeq(Zero, classification.confidence)
          /\ RLeq(classification.confidence, R(1))

\* C17 witness: a RISK_ON classification whose confidence was capped at 1
\* and then discounted for ELEVATED volatility.
C17_Witness ==
    /\ classification.returned
    /\ classification.sentiment = RISK_ON
    /\ classify_args.volatility.regime = ELEVATED
    /\ RGt(RAdd(Rat(1, 2), RAbs(NetScore)), R(1))
    /\ classification.confidence = Rat(17, 20)

\* What the getters would answer from a given matrix alone.
AnswersFrom(matrix) ==
    [matrix_none |-> FALSE, matrix |-> matrix, symbols |-> matrix.columns]

\* C18 as claimed: after any sequence of update_correlations /
\* build_correlation_matrix calls, get_correlation, get_average_correlation
\* and get_correlated_pairs answer from the matrix the latest call returned;
\* when that matrix is empty they report unavailable.
C18_Original ==
    correlation_call.called =>
        \A a, b \in Symbols :
            /\ GetCorrelation(correlation, a, b) =
                  GetCorrelation(AnswersFrom(correlation_call.returned), a, b)
            /\ GetAverageCorrelation(correlation, a) =
                  GetAverageCorrelation(AnswersFrom(correlation_call.returned), a)
            /\ GetCorrelatedPairs(correlation, a) =
                  GetCorrelatedPairs(AnswersFrom(correlation_call.returned), a)
            /\ correlation_call.returned.empty =>
                  /\ GetCorrelation(correlation, a, b) = NoneR
                  /\ GetAverageCorrelation(correlation, a) = NoneR
                  /\ GetCorrelatedPairs(correlation, a) = <<>>

\* C18, the diverging case reached: the latest call returned an empty matrix
\* for a single symbol, and get_correlation still answers with the value of
\* an earlier call.
C18_Witness ==
    /\ correlation_call.called
    /\ correlation_call.returned.empty
    /\ Cardinality(DOMAIN correlation_call.price_data) = 1
    /\ GetCorrelation(correlation, "A", "B") = R(-1)

\* Every call of `what` in `log` has a call of update_correlations before it,
\* and update_correlations is called exactly once.
UpdatedOnceBefore(log, what) ==
    /\ Len(SelectSeq(log, LAMBDA c : c.call = "update_correlations")) = 1
    /\ \A k \in 1..Len(log) :
          log[k].call = what =>
              \E j \in 1..(k - 1) : log[j].call = "update_correlations"

\* C19 as claimed: a finished BacktestEngine.run has called
\* update_correlations exactly once and before its first analyze_batch, and
\* in a polling cycle that is not skipped update_correlations has completed
\* before the first per-instrument analyze.
C19_Original ==
    /\ pc = "done" => UpdatedOnceBefore(analyzer_log, "analyze_batch")
    /\ \A k \in 1..Len(cycle.log) :
          cycle.log[k].call = "analyze" =>
              \E j \in 1..(k - 1) : cycle.log[j].call = "update_correlations"

\* C19, the diverging case reached: a cycle that was not skipped analyzes a
\* symbol without any update_correlations call, and analyze is given the
\* average correlation of a matrix built in an earlier cycle.
C19_Witness ==
    /\ ~cycle.skipped
    /\ cycle.n = 2
    /\ Len(cycle.log) = 1
    /\ cycle.log[1].call = "analyze"
    /\ cycle.log[1].average = R(1)

\* The events of the last analyze call that have the given type.
EventsOfType(event_type) ==
    SelectSeq(analysis.events, LAMBDA e : e.event_type = event_type)

\* C20: analyze returns on insufficient history: with fewer than lookback+1
\* bars the probability result is absent and no PROBABILITY_SIGNAL is
\* emitted, with fewer than atr_period+1 bars or an empty frame the
\* volatility result is absent and no VOLATILITY_ALERT is emitted; a
\* BacktestEngine run over such frames ends with a result of zero trades.
C20_InsufficientHistory ==
    /\ (analyze_args # NoArgs) => analysis.returned
    /\ analysis.returned =>
          /\ analyze_args.df.bars < Lookback + 1 =>
                /\ ~analysis.probability.present
                /\ EventsOfType(PROBABILITY_SIGNAL) = <<>>
          /\ (analyze_args.df.bars < AtrPeriod + 1 \/ analyze_args.df.bars = 0) =>
                /\ ~analysis.volatility.present
                /\ EventsOfType(VOLATILITY_ALERT) = <<>>
    /\ pc \notin {"idle", "done"} => (trades = <<>> /\ open_trades = <<>>)
    /\ pc = "done" =>
          /\ result.returned
          /\ result.total_trades = 0
          /\ result.trades = <<>>

\* C20, its case reached: a run over two bars has ended, the analyzer was
\* last given a frame of two bars, found neither result, and the result
\* holds no trade.
C20_Witness ==
    /\ pc = "done"
    /\ Len(simulated) = 2
    /\ analysis.returned
    /\ analyze_args.df.bars = 2
    /\ ~analysis.probability.present
    /\ ~analysis.volatility.present
    /\ result.returned
    /\ result.total_trades = 0

\* Whether the bar of timestamp u reaches the stop or the target of trade t.
HitAt(t, u) ==
    LET b == historical_data[t.symbol][u]
    IN  IF t.direction = LONG
        THEN RLeq(R(b.low), t.stop_loss) \/ RGeq(R(b.high), t.take_profit)
        ELSE RGeq(R(b.high), t.stop_loss) \/ RLeq(R(b.low), t.take_profit)
\* The bars whose check, analyze_batch and equity snapshot have been made.
Checked == Len(simulated)
Analyzed == Len(Batches)
Snapshots == Len(equity_curve) - 1

\* C21: bars are simulated in ascending time order and within a bar the
\* stop/target check comes first, then analyze_batch, then the signals, then
\* the equity snapshot; a trade is opened only after the analyze_batch of its
\* bar, is never closed by stop or target on the bar it was opened on, and is
\* checked on every simulated bar after it.
C21_BarOrder ==
    /\ \A n \in 1..Len(simulated) : simulated[n] = all_timestamps[n]
    /\ \A m, n \in 1..Len(all_timestamps) : m < n => all_timestamps[m] < all_timestamps[n]
    /\ Snapshots <= Analyzed /\ Analyzed <= Checked /\ Checked <= Snapshots + 1
    /\ pc = "analyze" => Analyzed = Checked - 1
    /\ pc = "signals" => Snapshots = Analyzed - 1
    /\ \A id \in DOMAIN trade :
          LET t == trade[id]
              later == {simulated[n] : n \in 1..Len(simulated)} \cap
                       {u \in Timestamps : u > t.entry_time}
          IN  /\ \E k \in 1..Analyzed : simulated[k] = t.entry_time
              /\ t.status \in {CLOSED_SL, CLOSED_TP} =>
                    /\ t.exit_time \in later
                    /\ HitAt(t, t.exit_time)
                    /\ \A u \in later : u < t.exit_time => ~HitAt(t, u)
              /\ t.status = OPEN => \A u \in later : ~HitAt(t, u)

\* C21 witness: a trade was opened on a bar that reaches its stop, stayed
\* open through the snapshot of that bar and was closed at its stop on the
\* next simulated bar.
C21_Witness ==
    \E id \in DOMAIN trade :
        /\ trade[id].status = CLOSED_SL
        /\ HitAt(trade[id], trade[id].entry_time)
        /\ Len(simulated) >= 2
        /\ trade[id].entry_time = simulated[1]
        /\ trade[id].exit_time = simulated[2]

\* The sum of the pnl of the trades of a set.
RECURSIVE PnlOf(_, _)
PnlOf(hp, ids) ==
    IF ids = {} THEN Zero
    ELSE LET id == CHOOSE x \in ids : TRUE
         IN  RAdd(hp[id].pnl, PnlOf(hp, ids \ {id}))
ClosedIds == {id \in DOMAIN trade : trade[id].status \in Terminal}
\* The signals of the bar have all been handled: the snapshot is next.
AtSnapshot == pc = "signals" /\ sig_idx > Len(Keys(signals))

\* C22: the step that ends a simulated bar appends exactly one value to the
\* equity curve, equal to initial_capital + the pnl of all trades closed so
\* far + the unrealized P&L of the trades open at that moment valued at the
\* bar's close; no other step of the bar loop changes the curve, which holds
\* one value per finished bar after the initial capital.
C22_EquitySnapshot ==
    [][/\ AtSnapshot =>
            equity_curve' =
               Append(equity_curve,
                      RAdd(RAdd(config.initial_capital, PnlOf(trade, ClosedIds)),
                           UnrealizedOf(trade, OpenIds)))
       /\ (equity_curve' # equity_curve /\ pc # "idle") => AtSnapshot
       /\ Len(equity_curve') - 1 =
             (IF pc' \in {"analyze", "signals"} THEN Len(simulated') - 1
                                                ELSE Len(simulated'))]_vars

\* C22 witness: a snapshot was taken while one trade was closed with a pnl
\* and another was open at a close away from its entry price.
C22_Witness ==
    /\ pc \in {"bar", "close_all"}
    /\ Len(equity_curve) >= 2
    /\ equity = equity_curve[Len(equity_curve)]
    /\ \E a, b \in DOMAIN trade :
          /\ trade[a].status \in Terminal /\ trade[a].pnl # Zero
          /\ trade[b].status = OPEN
          /\ R(historical_data[trade[b].symbol][simulated[Len(simulated)]].close)
                # trade[b].entry_price

\* The signal about to be handled for s has the direction of the open trade
\* of s.
SameDirectionSignal(s) ==
    /\ Handling(s)
    /\ DictHas(open_trades, s)
    /\ \/ signals[s] = UPWARD /\ trade[DictGet(open_trades, s)].direction = LONG
       \/ signals[s] = DOWNWARD /\ trade[DictGet(open_trades, s)].direction = SHORT

\* C23: an actionable signal in the direction of the symbol's open trade
\* changes nothing: the open set, every field of that trade, every other
\* trade and the ledger stay as they are.
C23_SameDirectionNoOp ==
    [][\A s \in Symbols :
          SameDirectionSignal(s) =>
              /\ open_trades' = open_trades
              /\ trade' = trade
              /\ trades' = trades]_vars

\* C23 witness: an UPWARD signal has just been handled for a symbol whose
\* LONG trade, opened on an earlier bar, is still open.
C23_Witness ==
    /\ pc = "signals"
    /\ sig_idx > 1
    /\ LET s == Keys(signals)[sig_idx - 1]
       IN  /\ signals[s] = UPWARD
           /\ DictHas(open_trades, s)
           /\ trade[DictGet(open_trades, s)].direction = LONG
           /\ trade[DictGet(open_trades, s)].status = OPEN
           /\ trade[DictGet(open_trades, s)].entry_time < NowTs

\* The place of a direction in the declared order.
DeclaredRank(d) == IF d = UPWARD THEN 1 ELSE IF d = DOWNWARD THEN 2 ELSE 3

\* C24: the direction of a returned probability result is the first one, in
\* the order UPWARD, DOWNWARD, CONSOLIDATION, whose probability is the
\* greatest of the three, for the softmax output (no sentiment given) and for
\* the probabilities adjusted by a sentiment alike.
C24_FirstMaximum ==
    (analysis.returned /\ analysis.probability.present) =>
        LET p == analysis.probability.probabilities
            d == analysis.probability.direction
        IN  /\ \A e \in Direction : RGeq(p[d], p[e])
            /\ \A e \in Direction : DeclaredRank(e) < DeclaredRank(d) => RLt(p[e], p[d])

\* C24 witness: probabilities adjusted by a sentiment tie UPWARD with
\* DOWNWARD above CONSOLIDATION, and the direction is UPWARD.
C24_Witness ==
    /\ analysis.returned
    /\ analysis.probability.present
    /\ analyze_args.market_sentiment.present
    /\ analysis.probability.probabilities[UPWARD] = analysis.probability.probabilities[DOWNWARD]
    /\ RGt(analysis.probability.probabilities[UPWARD],
           analysis.probability.probabilities[CONSOLIDATION])
    /\ analysis.probability.direction = UPWARD

\* C25 as claimed: the correlation factor equals the average correlation
\* whenever one is provided, 0.0 included, and is 0.5 only when none is.
C25_Original ==
    factors.returned =>
        factors.value.correlation =
            (IF factors.args.avg_correlation = NoneR THEN Rat(1, 2)
                                                     ELSE factors.args.avg_correlation)

\* C25, the diverging case reached: an average correlation of 0.0 was
\* provided and the factor is 0.5.
C25_Witness ==
    /\ factors.returned
    /\ factors.args.avg_correlation = Zero
    /\ factors.value.correlation = Rat(1, 2)

\* How often a trade is in the ledger and in the open set.
TimesInLedger(id) == Cardinality({n \in 1..Len(trades) : trades[n] = id})
TimesInOpenSet(id) == Cardinality({n \in 1..Len(open_trades) : open_trades[n].val = id})

\* C26: at every point of a run each trade the engine has opened is either
\* once in the open set with status OPEN or once in the ledger with a
\* terminal status, never both and never neither; when the run has returned
\* the result's ledger holds every trade opened exactly once, closed.
C26_LedgerConservation ==
    /\ \A n \in 1..Len(trades) : trades[n] \in DOMAIN trade
    /\ \A n \in 1..Len(open_trades) : open_trades[n].val \in DOMAIN trade
    /\ \A id \in DOMAIN trade :
          /\ TimesInLedger(id) + TimesInOpenSet(id) = 1
          /\ TimesInLedger(id) = 1 <=> trade[id].status \in Terminal
          /\ TimesInOpenSet(id) = 1 <=> trade[id].status = OPEN
    /\ pc = "done" =>
          /\ result.returned
          /\ open_trades = <<>>
          /\ Len(result.trades) = Cardinality(DOMAIN trade)
          /\ \A n \in 1..Len(result.trades) :
                /\ result.trades[n] = trade[trades[n]]
                /\ result.trades[n].status \in Terminal

\* C26 witness: a run has returned a ledger of three trades, closed on an
\* opposite signal, at a stop or target and at the end of the run.
C26_Witness ==
    /\ pc = "done"
    /\ Len(result.trades) >= 3
    /\ \E k, m, n \in 1..Len(result.trades) :
          /\ result.trades[k].status = CLOSED_SIGNAL
          /\ result.trades[m].status \in {CLOSED_SL, CLOSED_TP}
          /\ result.trades[n].status = CLOSED_END

\* C27: with the default thresholds an AnalysisResult whose probability is
\* actionable carries exactly one PROBABILITY_SIGNAL event, of importance 2
\* and with is_actionable true; get_actionable_signals returns only events of
\* importance 2, and whenever run would pass the result to _process_signal
\* such an event was emitted.
C27_ActionableIsImportant ==
    analysis.returned =>
        /\ (analysis.probability.present /\ analysis.probability.is_actionable) =>
              /\ Len(EventsOfType(PROBABILITY_SIGNAL)) = 1
              /\ EventsOfType(PROBABILITY_SIGNAL)[1].importance = 2
              /\ EventsOfType(PROBABILITY_SIGNAL)[1].is_actionable
        /\ \A n \in 1..Len(GetActionableSignals(analysis)) :
              GetActionableSignals(analysis)[n].importance = 2
        /\ SignalOf(analysis) # NOT_ACTIONABLE =>
              \E n \in 1..Len(analysis.events) :
                  /\ analysis.events[n].event_type = PROBABILITY_SIGNAL
                  /\ analysis.events[n].importance = 2

\* C27 witness: an actionable result whose probabilities a sentiment has
\* adjusted, and whose signal get_actionable_signals returns.
C27_Witness ==
    /\ analysis.returned
    /\ analysis.probability.present
    /\ analysis.probability.is_actionable
    /\ analyze_args.market_sentiment.present
    /\ analysis.probability.probabilities # BeforeContext.probabilities
    /\ Len(GetActionableSignals(analysis)) = 1

\* A step that is a call of run on an engine that is idle or has returned.
RunCalled == pc \in {"idle", "done"} /\ pc' \notin {"idle", "done"}

C30_Original == (publisher.pc = "flushing") ~> (publisher.pc = "stopped")

\* stop is in its flush loop and the message it just failed to publish is
\* back on the queue.
C30_Witness ==
    /\ publisher.pc = "flushing"
    /\ publisher.last = "requeued"
    /\ publisher.queue # <<>>

====
